---------------------------- MODULE Spec2Model ----------------------------
(***************************************************************************)
(* Incremental HTTP/1.1 message parsers of the rhymuweb crate:             *)
(* Request::parse, Response::parse and ChunkedBody::decode, driven by a    *)
(* caller that presents the not-yet-consumed bytes followed by the next    *)
(* piece of the wire stream.                                               *)
(*                                                                         *)
(* A byte is a one-character string; a byte string is a sequence of them.  *)
(***************************************************************************)
EXTENDS Integers, Sequences, FiniteSets, TLC

CR == "\r"
LF == "\n"
SP == " "
HT == "\t"

\* src/src/lib.rs:59  const CRLF: &str = "\r\n";
CRLF == <<CR, LF>>

\* A byte that can never be part of valid UTF-8 text (0xFF).
BadByte == "#FF"

Take(s, n) == SubSeq(s, 1, n)
Drop(s, n) == SubSeq(s, n + 1, Len(s))
Min(a, b) == IF a <= b THEN a ELSE b

\* A `let` binding: the body F with the value v under the name F gives it.
With(v, F(_)) == F(v)

Some(n) == [some |-> TRUE, val |-> n]
None == [some |-> FALSE, val |-> 0]

UpperLetters == <<"A","B","C","D","E","F","G","H","I","J","K","L","M",
                  "N","O","P","Q","R","S","T","U","V","W","X","Y","Z">>
LowerLetters == <<"a","b","c","d","e","f","g","h","i","j","k","l","m",
                  "n","o","p","q","r","s","t","u","v","w","x","y","z">>
DecDigits == <<"0","1","2","3","4","5","6","7","8","9">>

\* str::to_ascii_lowercase on one byte.
UpperSet == {UpperLetters[i] : i \in 1..26}
LowerOf == [c \in UpperSet |-> LowerLetters[CHOOSE i \in 1..26 : UpperLetters[i] = c]]
ToLowerByte(c) == IF c \in UpperSet THEN LowerOf[c] ELSE c

ToLower(s) == [i \in 1..Len(s) |-> ToLowerByte(s[i])]

EqIgnoreCase(a, b) ==
    /\ Len(a) = Len(b)
    /\ \A i \in 1..Len(a) : ToLowerByte(a[i]) = ToLowerByte(b[i])

\* Position (0-based) of the first byte of s, at or after 0-based index i,
\* that lies in the set cs; -1 when there is none (Option::None).
RECURSIVE FindByteFrom(_, _, _)
FindByteFrom(s, cs, i) ==
    IF i >= Len(s) THEN -1
    ELSE IF s[i + 1] \in cs THEN i
    ELSE FindByteFrom(s, cs, i + 1)

FindByte(s, cs) == FindByteFrom(s, cs, 0)

\* std::str::from_utf8 succeeds.
IsUtf8(s) == \A i \in 1..Len(s) : s[i] # BadByte

RECURSIVE find_crlf_from(_, _)
find_crlf_from(message, i) ==
    IF i + 2 > Len(message) THEN -1
    ELSE IF message[i + 1] = CR /\ message[i + 2] = LF THEN i
    ELSE find_crlf_from(message, i + 1)

\* src/src/lib.rs:61-67: 0-based index of the first CR LF window, -1 for None.
find_crlf(message) == find_crlf_from(message, 0)

DecDigitSet == {DecDigits[i] : i \in 1..10}
DecDigitValueOf == [c \in DecDigitSet |-> (CHOOSE i \in 1..10 : DecDigits[i] = c) - 1]
DigitValue(c) == DecDigitValueOf[c]
IsDecDigit(c) == c \in DecDigitSet

\* Largest value of the unsigned machine word the model gives usize.
UsizeMax == 99999

\* Value of a decimal digit string, saturating just above UsizeMax.
RECURSIVE DecValue(_)
DecValue(s) ==
    IF Len(s) = 0 THEN 0
    ELSE LET v == 10 * DecValue(Take(s, Len(s) - 1)) + DigitValue(s[Len(s)])
         IN  IF v > UsizeMax THEN UsizeMax + 1 ELSE v

\* A faulty variant of the integer parse: a value too large for usize is
\* taken as the largest usize.
ParseUsize_saturating(s) ==
    LET digits == IF Len(s) > 0 /\ s[1] = "+" THEN Tail(s) ELSE s
    IN  IF Len(digits) = 0 \/ \E i \in 1..Len(digits) : ~IsDecDigit(digits[i])
        THEN None
        ELSE IF DecValue(digits) > UsizeMax THEN Some(UsizeMax)
        ELSE Some(DecValue(digits))

\* str::parse::<usize>: an optional leading '+', then one or more decimal
\* digits, the value fitting usize.
ParseUsize(s) ==
    LET digits == IF Len(s) > 0 /\ s[1] = "+" THEN Tail(s) ELSE s
    IN  IF Len(digits) = 0 \/ \E i \in 1..Len(digits) : ~IsDecDigit(digits[i])
        THEN None
        ELSE IF DecValue(digits) > UsizeMax THEN None
        ELSE Some(DecValue(digits))

\* usize::to_string
RECURSIVE UsizeToString(_)
UsizeToString(n) ==
    IF n < 10 THEN <<DecDigits[n + 1]>>
    ELSE Append(UsizeToString(n \div 10), DecDigits[(n % 10) + 1])

(***************************************************************************)
(* The header-block collaborator (rhymessage::MessageHeaders).             *)
(***************************************************************************)
Header(name, value) == [name |-> name, value |-> value]

\* MessageHeaders::new
NewMessageHeaders == [headers |-> <<>>]

IsWs(c) == c \in {SP, HT}

RECURSIVE TrimLeft(_)
TrimLeft(s) == IF Len(s) > 0 /\ IsWs(s[1]) THEN TrimLeft(Tail(s)) ELSE s

RECURSIVE TrimRight(_)
TrimRight(s) ==
    IF Len(s) > 0 /\ IsWs(s[Len(s)]) THEN TrimRight(Take(s, Len(s) - 1)) ELSE s

Trim(s) == TrimRight(TrimLeft(s))

HeadersOk(mh, status, consumed) ==
    [mh |-> mh, ok |-> TRUE, status |-> status, consumed |-> consumed,
     error |-> "", data |-> <<>>]

HeadersErr(mh, error, data) ==
    [mh |-> mh, ok |-> FALSE, status |-> "", consumed |-> 0,
     error |-> error, data |-> data]

\* MessageHeaders::parse: header lines are taken one at a time; a line is
\* committed only once the line after it is terminated too (the collaborator
\* looks ahead for a continuation line); the blank line completes the block.
RECURSIVE MessageHeaders_parse_from(_, _, _)
MessageHeaders_parse_from(mh, raw, offset) ==
    With(Drop(raw, offset), LAMBDA rest :
    With(find_crlf(rest), LAMBDA line_end :
    IF line_end = -1 THEN HeadersOk(mh, "Incomplete", offset)
    ELSE IF line_end = 0 THEN HeadersOk(mh, "Complete", offset + 2)
    ELSE
    With(Take(rest, line_end), LAMBDA line :
    With(FindByte(line, {":"}), LAMBDA colon :
    IF ~IsUtf8(line) THEN HeadersErr(mh, "HeaderLineNotValidText", line)
    ELSE IF colon = -1 THEN HeadersErr(mh, "HeaderLineMissingColon", line)
    ELSE IF colon = 0 \/ \E i \in 1..colon : IsWs(line[i])
    THEN HeadersErr(mh, "HeaderNameContainsIllegalCharacter", line)
    ELSE IF find_crlf(Drop(rest, line_end + 2)) = -1
    THEN HeadersOk(mh, "Incomplete", offset)
    ELSE MessageHeaders_parse_from(
           [mh EXCEPT !.headers = Append(@,
               Header(Take(line, colon), Trim(Drop(line, colon + 1))))],
           raw, offset + line_end + 2)))))

MessageHeaders_parse(mh, raw) == MessageHeaders_parse_from(mh, raw, 0)

\* Indices of the headers called name (names compare case-insensitively).
HeaderIndices(mh, name) ==
    {i \in 1..Len(mh.headers) : EqIgnoreCase(mh.headers[i].name, name)}

\* MessageHeaders::has_header
has_header(mh, name) == HeaderIndices(mh, name) # {}

\* The values of the headers called name, in order.
RECURSIVE ValuesOf(_, _)
ValuesOf(hs, name) ==
    IF Len(hs) = 0 THEN <<>>
    ELSE IF EqIgnoreCase(hs[1].name, name)
    THEN <<hs[1].value>> \o ValuesOf(Tail(hs), name)
    ELSE ValuesOf(Tail(hs), name)

RECURSIVE JoinTokens(_, _)
JoinTokens(tokens, sep) ==
    IF Len(tokens) = 0 THEN <<>>
    ELSE IF Len(tokens) = 1 THEN tokens[1]
    ELSE tokens[1] \o sep \o JoinTokens(Tail(tokens), sep)

\* MessageHeaders::header_value: the values of all headers called name,
\* combined with commas; None when there is no such header.
header_value(mh, name) ==
    With(ValuesOf(mh.headers, name), LAMBDA values :
    IF Len(values) = 0 THEN [some |-> FALSE, val |-> <<>>]
    ELSE [some |-> TRUE, val |-> JoinTokens(values, <<",">>)])

\* The comma-separated elements of a header value, trimmed and lower-cased.
RECURSIVE SplitTokens(_)
SplitTokens(v) ==
    LET comma == FindByte(v, {","})
    IN  IF Len(v) = 0 THEN <<>>
        ELSE IF comma = -1 THEN <<ToLower(Trim(v))>>
        ELSE <<ToLower(Trim(Take(v, comma)))>> \o SplitTokens(Drop(v, comma + 1))

\* MessageHeaders::header_tokens
header_tokens(mh, name) == SplitTokens(header_value(mh, name).val)

\* MessageHeaders::has_header_token
has_header_token(mh, name, token) ==
    With(header_tokens(mh, name), LAMBDA tokens :
    \E i \in 1..Len(tokens) : tokens[i] = ToLower(token))

\* MessageHeaders::add_header
add_header(mh, h) == [mh EXCEPT !.headers = Append(@, h)]

\* MessageHeaders::remove_header
remove_header(mh, name) ==
    [mh EXCEPT !.headers = SelectSeq(@, LAMBDA h : ~EqIgnoreCase(h.name, name))]

\* MessageHeaders::set_header: the first header called name takes the value
\* and any other header of that name is dropped; added when absent.
set_header(mh, name, value) ==
    IF ~has_header(mh, name) THEN add_header(mh, Header(name, value))
    ELSE LET first == CHOOSE i \in HeaderIndices(mh, name) :
                         \A j \in HeaderIndices(mh, name) : i <= j
             kept == {i \in 1..Len(mh.headers) :
                         i = first \/ ~EqIgnoreCase(mh.headers[i].name, name)}
             F[i \in 0..Len(mh.headers)] ==
                 IF i = 0 THEN <<>>
                 ELSE IF i \notin kept THEN F[i - 1]
                 ELSE IF i = first THEN Append(F[i - 1], Header(mh.headers[i].name, value))
                 ELSE Append(F[i - 1], mh.headers[i])
         IN  [mh EXCEPT !.headers = F[Len(mh.headers)]]

RECURSIVE GenerateHeaderLines(_)
GenerateHeaderLines(hs) ==
    IF Len(hs) = 0 THEN <<>>
    ELSE hs[1].name \o <<":", SP>> \o hs[1].value \o CRLF
         \o GenerateHeaderLines(Tail(hs))

\* MessageHeaders::generate: one "name: value" line per header, then the
\* blank line.
MessageHeaders_generate(mh) == GenerateHeaderLines(mh.headers) \o CRLF

\* The URI collaborator (rhymuri::Uri::parse): a target free of characters
\* no URI may hold is accepted and kept as its text.
UriIllegal == {BadByte, "^", SP, CR, LF}
Uri_parse(text) ==
    IF \E i \in 1..Len(text) : text[i] \in UriIllegal
    THEN [ok |-> FALSE, uri |-> <<>>]
    ELSE [ok |-> TRUE, uri |-> text]

HTTP11 == <<"H","T","T","P","/","1",".","1">>
ContentLengthName == <<"C","o","n","t","e","n","t","-","L","e","n","g","t","h">>
TransferEncodingName ==
    <<"T","r","a","n","s","f","e","r","-","E","n","c","o","d","i","n","g">>
TrailerName == <<"T","r","a","i","l","e","r">>
ChunkedToken == <<"c","h","u","n","k","e","d">>

(***************************************************************************)
(* Request (src/src/request.rs).                                           *)
(***************************************************************************)

\* Result of one internal step or of a whole parse call: the request as the
\* step left it, Ok(status, consumed) or Err(error carrying data).
ReqOk(r, status, consumed) ==
    [req |-> r, ok |-> TRUE, status |-> status, consumed |-> consumed,
     error |-> "", data |-> <<>>]

ReqErr(r, error, data) ==
    [req |-> r, ok |-> FALSE, status |-> "", consumed |-> 0,
     error |-> error, data |-> data]

RequestState(tag, content_length) == [tag |-> tag, content_length |-> content_length]

\* Request::new, with the two public limit fields as the caller set them.
NewRequest(request_line_limit, max_message_size) ==
    [body |-> <<>>,
     headers |-> NewMessageHeaders,
     max_message_size |-> max_message_size,
     method |-> <<"G","E","T">>,
     request_line_limit |-> request_line_limit,
     state |-> RequestState("RequestLine", 0),
     target |-> <<>>,
     total_bytes |-> 0]

DefaultRequestLineLimit == 1000
DefaultMaxMessageSize == 10000000

\* Request::new
Request_new == NewRequest(Some(DefaultRequestLineLimit), Some(DefaultMaxMessageSize))

\* A faulty variant of parse_request_line: the protocol is looked at before
\* the target is handed to the URI parser.
parse_request_line_protocol_first(request_line) ==
    LET Fail(e) == [ok |-> FALSE, error |-> e, method |-> <<>>, target |-> <<>>]
    IN
    With(FindByte(request_line, {SP}), LAMBDA method_delimiter :
    With(Take(request_line, method_delimiter), LAMBDA method :
    With(Drop(request_line, method_delimiter + 1), LAMBDA request_line_at_target :
    With(FindByte(request_line_at_target, {SP}), LAMBDA target_delimiter :
    With(Uri_parse(Take(request_line_at_target, target_delimiter)), LAMBDA target :
    IF method_delimiter = -1 THEN Fail("RequestLineNoMethodDelimiter")
    ELSE IF Len(method) = 0 THEN Fail("RequestLineNoMethodOrExtraWhitespace")
    ELSE IF target_delimiter = -1 THEN Fail("RequestLineNoTargetDelimiter")
    ELSE IF target_delimiter = 0 THEN Fail("RequestLineNoTargetOrExtraWhitespace")
    ELSE IF Drop(request_line_at_target, target_delimiter + 1) # HTTP11
    THEN Fail("RequestLineProtocol")
    ELSE IF ~target.ok THEN Fail("RequestTargetUriInvalid")
    ELSE [ok |-> TRUE, error |-> "", method |-> method, target |-> target.uri])))))

\* fn parse_request_line: Ok((method, target)) or the error.
parse_request_line(request_line) ==
    LET Fail(e) == [ok |-> FALSE, error |-> e, method |-> <<>>, target |-> <<>>]
    IN
    With(FindByte(request_line, {SP}), LAMBDA method_delimiter :
    With(Take(request_line, method_delimiter), LAMBDA method :
    With(Drop(request_line, method_delimiter + 1), LAMBDA request_line_at_target :
    With(FindByte(request_line_at_target, {SP}), LAMBDA target_delimiter :
    With(Uri_parse(Take(request_line_at_target, target_delimiter)), LAMBDA target :
    IF method_delimiter = -1 THEN Fail("RequestLineNoMethodDelimiter")
    ELSE IF Len(method) = 0 THEN Fail("RequestLineNoMethodOrExtraWhitespace")
    ELSE IF target_delimiter = -1 THEN Fail("RequestLineNoTargetDelimiter")
    ELSE IF target_delimiter = 0 THEN Fail("RequestLineNoTargetOrExtraWhitespace")
    ELSE IF ~target.ok THEN Fail("RequestTargetUriInvalid")
    ELSE IF Drop(request_line_at_target, target_delimiter + 1) = HTTP11
    THEN [ok |-> TRUE, error |-> "", method |-> method, target |-> target.uri]
    ELSE Fail("RequestLineProtocol"))))))

\* A faulty variant of count_bytes: a total that reaches the cap is refused.
count_bytes_strict(r, bytes) ==
    LET total == r.total_bytes + bytes
    IN  [req |-> [r EXCEPT !.total_bytes = total],
         ok |-> ~(r.max_message_size.some /\ total >= r.max_message_size.val),
         overflow |-> FALSE]

\* A faulty variant of count_bytes: without a cap, no byte is allowed.
count_bytes_none_is_zero(r, bytes) ==
    [req |-> [r EXCEPT !.total_bytes = r.total_bytes + bytes],
     ok |-> IF r.max_message_size.some
            THEN r.total_bytes + bytes <= r.max_message_size.val
            ELSE r.total_bytes + bytes <= 0,
     overflow |-> FALSE]

\* A faulty variant of count_bytes: the bytes are checked against the cap
\* and not added to total_bytes.
count_bytes_forgetful(r, bytes) ==
    [req |-> r,
     ok |-> ~(r.max_message_size.some
              /\ r.total_bytes + bytes > r.max_message_size.val),
     overflow |-> FALSE]

\* Request::count_bytes: the request with the bytes added to total_bytes, and
\* whether the total is still within max_message_size.  total_bytes is a
\* usize and `self.total_bytes += bytes` is an unchecked addition: the stored
\* total is the sum modulo the word, and overflow tells that the sum did not
\* fit (a build with overflow checks panics there, see BuildOutcomes).
count_bytes(r, bytes) ==
    LET total == (r.total_bytes + bytes) % (UsizeMax + 1)
    IN  [req |-> [r EXCEPT !.total_bytes = total],
         ok |-> ~(r.max_message_size.some /\ total > r.max_message_size.val),
         overflow |-> r.total_bytes + bytes > UsizeMax]

\* A faulty variant of parse_message_for_body: it takes every byte it is
\* given for the body instead of stopping at Content-Length.
parse_message_for_body_greedy(r, raw_message, content_length) ==
    ReqOk([r EXCEPT !.body = @ \o raw_message],
          IF Len(raw_message) >= content_length - Len(r.body)
          THEN "CompleteWhole" ELSE "Incomplete",
          Len(raw_message))

\* A faulty variant of parse_message_for_body: a call that is given no body
\* byte waits for more.
parse_message_for_body_waiting(r, raw_message, content_length) ==
    IF Len(raw_message) >= content_length - Len(r.body) /\ Len(raw_message) > 0
    THEN ReqOk([r EXCEPT !.body = @ \o Take(raw_message, content_length - Len(r.body))],
               "CompleteWhole", content_length - Len(r.body))
    ELSE ReqOk([r EXCEPT !.body = @ \o raw_message], "Incomplete", Len(raw_message))

\* A faulty variant of parse_message_for_body: a request whose body is
\* complete is made ready for the next request line.
parse_message_for_body_rewinding(r, raw_message, content_length) ==
    LET needed == content_length - Len(r.body)
    IN  IF Len(raw_message) >= needed
        THEN ReqOk([r EXCEPT !.body = @ \o Take(raw_message, needed),
                             !.state = RequestState("RequestLine", 0)],
                   "CompleteWhole", needed)
        ELSE ReqOk([r EXCEPT !.body = @ \o raw_message],
                   "Incomplete", Len(raw_message))

\* Request::parse_message_for_body
parse_message_for_body(r, raw_message, content_length) ==
    LET needed == content_length - Len(r.body)
    IN  IF Len(raw_message) >= needed
        THEN ReqOk([r EXCEPT !.body = @ \o Take(raw_message, needed)],
                   "CompleteWhole", needed)
        ELSE ReqOk([r EXCEPT !.body = @ \o raw_message],
                   "Incomplete", Len(raw_message))

\* A faulty variant of Request::parse_message_for_headers: the declared
\* Content-Length is not counted when the header block completes.
Request_parse_message_for_headers_lazy(r, raw_message) ==
    With(MessageHeaders_parse(r.headers, raw_message), LAMBDA parse_results :
    With(count_bytes([r EXCEPT !.headers = parse_results.mh], parse_results.consumed),
         LAMBDA counted :
    With(header_value(counted.req.headers, ContentLengthName), LAMBDA value :
    IF ~parse_results.ok
    THEN ReqErr(counted.req, "Headers", <<parse_results.error>>)
    ELSE IF ~counted.ok THEN ReqErr(counted.req, "MessageTooLong", <<>>)
    ELSE IF parse_results.status = "Incomplete"
    THEN ReqOk(counted.req, "Incomplete", parse_results.consumed)
    ELSE IF ~value.some
    THEN ReqOk(counted.req, "CompleteWhole", parse_results.consumed)
    ELSE ReqOk([counted.req EXCEPT
                    !.state = RequestState("Body", ParseUsize(value.val).val)],
               "CompletePart", parse_results.consumed))))

\* A faulty variant of Request::parse_message_for_headers: a request that
\* declares Transfer-Encoding: chunked and no Content-Length waits for a body.
Request_parse_message_for_headers_chunked(r, raw_message) ==
    With(MessageHeaders_parse(r.headers, raw_message), LAMBDA parse_results :
    With(count_bytes([r EXCEPT !.headers = parse_results.mh], parse_results.consumed),
         LAMBDA counted :
    IF ~parse_results.ok
    THEN ReqErr(counted.req, "Headers", <<parse_results.error>>)
    ELSE IF ~counted.ok THEN ReqErr(counted.req, "MessageTooLong", <<>>)
    ELSE IF parse_results.status = "Incomplete"
    THEN ReqOk(counted.req, "Incomplete", parse_results.consumed)
    ELSE IF has_header(counted.req.headers, TransferEncodingName)
    THEN ReqOk([counted.req EXCEPT !.state = RequestState("Body", 1)],
               "CompletePart", parse_results.consumed)
    ELSE ReqOk(counted.req, "CompleteWhole", parse_results.consumed)))

\* Request::parse_message_for_headers
Request_parse_message_for_headers(r, raw_message) ==
    With(MessageHeaders_parse(r.headers, raw_message), LAMBDA parse_results :
    With([r EXCEPT !.headers = parse_results.mh], LAMBDA r1 :
    With(count_bytes(r1, parse_results.consumed), LAMBDA counted :
    With(header_value(r1.headers, ContentLengthName), LAMBDA value :
    With(ParseUsize(value.val), LAMBDA content_length :
    With(count_bytes(counted.req, content_length.val), LAMBDA counted2 :
    IF ~parse_results.ok
    THEN ReqErr(r1, "Headers", <<parse_results.error>>)
    ELSE IF ~counted.ok THEN ReqErr(counted.req, "MessageTooLong", <<>>)
    ELSE IF parse_results.status = "Incomplete"
    THEN ReqOk(counted.req, "Incomplete", parse_results.consumed)
    ELSE IF ~value.some
    THEN ReqOk(counted.req, "CompleteWhole", parse_results.consumed)
    ELSE IF ~content_length.some
    THEN ReqErr(counted.req, "InvalidContentLength", value.val)
    ELSE IF counted2.overflow THEN ReqErr(counted.req, "AddOverflow", value.val)
    ELSE IF ~counted2.ok THEN ReqErr(counted2.req, "MessageTooLong", <<>>)
    ELSE ReqOk([counted2.req EXCEPT
                    !.state = RequestState("Body", content_length.val)],
               "CompletePart", parse_results.consumed)))))))

\* request.rs:429  `if request_line_end > limit`
terminated_line_too_long(request_line_end, limit) == request_line_end > limit

\* request.rs:447  `if raw_message.len() > limit`
unterminated_line_too_long(raw_message, limit) == Len(raw_message) > limit

\* A faulty variant of too_long_payload: the error carries the whole input.
too_long_payload_whole(raw_message, limit) == raw_message

\* request.rs:431,448  `raw_message[..limit].to_vec()`
too_long_payload(raw_message, limit) == Take(raw_message, limit)

\* Request::parse_message_for_request_line
parse_message_for_request_line(r, raw_message) ==
    With(find_crlf(raw_message), LAMBDA request_line_end :
    With(r.request_line_limit, LAMBDA limit :
    With(Take(raw_message, request_line_end), LAMBDA request_line :
    With(count_bytes(r, request_line_end + Len(CRLF)), LAMBDA counted :
    With([counted.req EXCEPT !.state = RequestState("Headers", 0)], LAMBDA r1 :
    With(parse_request_line(request_line), LAMBDA parsed :
    IF request_line_end # -1 /\ limit.some
       /\ terminated_line_too_long(request_line_end, limit.val)
    THEN ReqErr(r, "RequestLineTooLong", too_long_payload(raw_message, limit.val))
    ELSE IF request_line_end # -1
    THEN IF ~IsUtf8(request_line)
         THEN ReqErr(r, "RequestLineNotValidText", request_line)
         ELSE IF ~counted.ok THEN ReqErr(counted.req, "MessageTooLong", <<>>)
         ELSE IF ~parsed.ok
         THEN ReqErr(r1, parsed.error,
                     IF parsed.error = "RequestTargetUriInvalid"
                     THEN <<"rhymuri::Error">> ELSE request_line)
         ELSE ReqOk([r1 EXCEPT !.method = parsed.method,
                               !.target = parsed.target],
                    "CompletePart", request_line_end + Len(CRLF))
    ELSE IF limit.some /\ unterminated_line_too_long(raw_message, limit.val)
    THEN ReqErr(r, "RequestLineTooLong", too_long_payload(raw_message, limit.val))
    ELSE ReqOk(r, "Incomplete", 0)))))))

\* The loop of Request::parse, from total_consumed bytes into raw_message.
RECURSIVE Request_parse_from(_, _, _)
Request_parse_from(r, raw_message, total_consumed) ==
    With(Drop(raw_message, total_consumed), LAMBDA raw_message_remainder :
    With(CASE r.state.tag = "Body" ->
                parse_message_for_body(r, raw_message_remainder,
                                       r.state.content_length)
           [] r.state.tag = "Headers" ->
                Request_parse_message_for_headers(r, raw_message_remainder)
           [] r.state.tag = "RequestLine" ->
                parse_message_for_request_line(r, raw_message_remainder),
         LAMBDA step :
    IF ~step.ok THEN step
    ELSE IF step.status = "CompletePart"
    THEN Request_parse_from(step.req, raw_message, total_consumed + step.consumed)
    ELSE IF step.status = "CompleteWhole"
    THEN ReqOk(step.req, "Complete", total_consumed + step.consumed)
    ELSE ReqOk(step.req, "Incomplete", total_consumed + step.consumed)))

\* Request::parse
Request_parse(r, raw_message) == Request_parse_from(r, raw_message, 0)

\* A faulty variant of Request::generate: a request without a Content-Length
\* header is given one.
Request_generate_with_length(r) ==
    r.method \o <<SP>> \o r.target \o <<SP>> \o HTTP11 \o CRLF
    \o MessageHeaders_generate(
          IF ~has_header(r.headers, ContentLengthName)
          THEN add_header(r.headers,
                          Header(ContentLengthName, UsizeToString(Len(r.body))))
          ELSE r.headers)
    \o r.body

\* Request::generate
Request_generate(r) ==
    r.method \o <<SP>> \o r.target \o <<SP>> \o HTTP11 \o CRLF
    \o MessageHeaders_generate(r.headers) \o r.body

(***************************************************************************)
(* ChunkedBody (src/src/chunked_body.rs).                                  *)
(***************************************************************************)
HexDigits == <<"0","1","2","3","4","5","6","7","8","9","a","b","c","d","e","f">>

HexDigitSet == {HexDigits[i] : i \in 1..16}
HexDigitValueOf == [c \in HexDigitSet |-> (CHOOSE i \in 1..16 : HexDigits[i] = c) - 1]
IsHexDigit(c) == ToLowerByte(c) \in HexDigitSet
HexDigitValue(c) == HexDigitValueOf[ToLowerByte(c)]

\* Value of a hexadecimal digit string, saturating just above UsizeMax.
RECURSIVE HexValue(_)
HexValue(s) ==
    IF Len(s) = 0 THEN 0
    ELSE LET v == 16 * HexValue(Take(s, Len(s) - 1)) + HexDigitValue(s[Len(s)])
         IN  IF v > UsizeMax THEN UsizeMax + 1 ELSE v

\* usize::from_str_radix(_, 16): an optional leading '+', then one or more
\* hexadecimal digits, the value fitting usize.
ParseHexUsize(s) ==
    LET digits == IF Len(s) > 0 /\ s[1] = "+" THEN Tail(s) ELSE s
    IN  IF Len(digits) = 0 \/ \E i \in 1..Len(digits) : ~IsHexDigit(digits[i])
        THEN None
        ELSE IF HexValue(digits) > UsizeMax THEN None
        ELSE Some(HexValue(digits))

\* A faulty variant of parse_chunk_size: the whole line is the size text.
parse_chunk_size_whole_line(chunk_size_line) == ParseHexUsize(chunk_size_line)

\* fn parse_chunk_size: the size text ends at the first ';' or CR.
parse_chunk_size(chunk_size_line) ==
    LET found == FindByte(chunk_size_line, {";", CR})
        delimiter == IF found = -1 THEN Len(chunk_size_line) ELSE found
    IN  ParseHexUsize(Take(chunk_size_line, delimiter))

\* ChunkedBody::new
NewChunkedBody ==
    [buffer |-> <<>>, chunk_bytes_needed |-> 0, state |-> "ChunkSize",
     trailer |-> NewMessageHeaders]

CbOk(cb, status, consumed) ==
    [cb |-> cb, ok |-> TRUE, status |-> status, consumed |-> consumed,
     error |-> "", data |-> <<>>]

CbErr(cb, error, data) ==
    [cb |-> cb, ok |-> FALSE, status |-> "", consumed |-> 0,
     error |-> error, data |-> data]

\* A faulty variant of decode_data: the whole slice is reported consumed,
\* whatever part of it the chunk took.
decode_data_miscounted(cb, raw_message) ==
    With(Min(Len(raw_message), cb.chunk_bytes_needed), LAMBDA consumed :
    With([cb EXCEPT !.chunk_bytes_needed = @ - consumed,
                    !.buffer = @ \o Take(raw_message, consumed)], LAMBDA cb1 :
    IF cb1.chunk_bytes_needed = 0
    THEN CbOk([cb1 EXCEPT !.state = "ChunkTerminator"], "CompletePart",
              Len(raw_message))
    ELSE CbOk(cb1, "Incomplete", Len(raw_message))))

\* ChunkedBody::decode_data
decode_data(cb, raw_message) ==
    With(Min(Len(raw_message), cb.chunk_bytes_needed), LAMBDA consumed :
    With([cb EXCEPT !.chunk_bytes_needed = @ - consumed,
                    !.buffer = @ \o Take(raw_message, consumed)], LAMBDA cb1 :
    IF cb1.chunk_bytes_needed = 0
    THEN CbOk([cb1 EXCEPT !.state = "ChunkTerminator"], "CompletePart", consumed)
    ELSE CbOk(cb1, "Incomplete", consumed)))

\* A faulty variant of decode_size: an unterminated chunk-size line is
\* consumed, so its bytes are lost to the next call.
decode_size_eager(cb, raw_message) ==
    With(find_crlf(raw_message), LAMBDA chunk_size_line_end :
    With(parse_chunk_size(Take(raw_message, chunk_size_line_end)), LAMBDA size :
    IF chunk_size_line_end = -1 THEN CbOk(cb, "Incomplete", Len(raw_message))
    ELSE IF ~size.some THEN CbErr(cb, "InvalidChunkSize", <<>>)
    ELSE CbOk([cb EXCEPT !.chunk_bytes_needed = size.val,
                         !.state = IF size.val = 0 THEN "Trailer" ELSE "ChunkData"],
              "CompletePart", chunk_size_line_end + Len(CRLF))))

\* A faulty variant of decode_size: the chunk-size line is read and left in
\* the input.
decode_size_peeking(cb, raw_message) ==
    With(find_crlf(raw_message), LAMBDA chunk_size_line_end :
    With(parse_chunk_size(Take(raw_message, chunk_size_line_end)), LAMBDA size :
    IF chunk_size_line_end = -1 THEN CbOk(cb, "Incomplete", 0)
    ELSE IF ~size.some THEN CbErr(cb, "InvalidChunkSize", <<>>)
    ELSE CbOk([cb EXCEPT !.chunk_bytes_needed = size.val,
                         !.state = IF size.val = 0 THEN "Trailer" ELSE "ChunkData"],
              "CompletePart", 0)))

\* A faulty variant of decode_size: a size line that is refused empties the
\* buffer.
decode_size_clearing(cb, raw_message) ==
    With(find_crlf(raw_message), LAMBDA chunk_size_line_end :
    With(Take(raw_message, chunk_size_line_end), LAMBDA chunk_size_line :
    With(parse_chunk_size(chunk_size_line), LAMBDA size :
    IF chunk_size_line_end = -1 THEN CbOk(cb, "Incomplete", 0)
    ELSE IF ~IsUtf8(chunk_size_line)
    THEN CbErr([cb EXCEPT !.buffer = <<>>], "ChunkSizeLineNotValidText", chunk_size_line)
    ELSE IF ~size.some THEN CbErr([cb EXCEPT !.buffer = <<>>], "InvalidChunkSize", <<>>)
    ELSE CbOk([cb EXCEPT !.chunk_bytes_needed = size.val,
                         !.state = IF size.val = 0 THEN "Trailer" ELSE "ChunkData"],
              "CompletePart", chunk_size_line_end + Len(CRLF)))))

\* A faulty variant of decode_size: a chunk of size zero is awaited as data
\* like any other.
decode_size_zero_as_data(cb, raw_message) ==
    With(find_crlf(raw_message), LAMBDA chunk_size_line_end :
    With(Take(raw_message, chunk_size_line_end), LAMBDA chunk_size_line :
    With(parse_chunk_size(chunk_size_line), LAMBDA size :
    IF chunk_size_line_end = -1 THEN CbOk(cb, "Incomplete", 0)
    ELSE IF ~IsUtf8(chunk_size_line)
    THEN CbErr(cb, "ChunkSizeLineNotValidText", chunk_size_line)
    ELSE IF ~size.some THEN CbErr(cb, "InvalidChunkSize", <<>>)
    ELSE CbOk([cb EXCEPT !.chunk_bytes_needed = size.val,
                         !.state = "ChunkData"],
              "CompletePart", chunk_size_line_end + Len(CRLF)))))

\* ChunkedBody::decode_size
decode_size(cb, raw_message) ==
    With(find_crlf(raw_message), LAMBDA chunk_size_line_end :
    With(Take(raw_message, chunk_size_line_end), LAMBDA chunk_size_line :
    With(parse_chunk_size(chunk_size_line), LAMBDA size :
    IF chunk_size_line_end = -1 THEN CbOk(cb, "Incomplete", 0)
    ELSE IF ~IsUtf8(chunk_size_line)
    THEN CbErr(cb, "ChunkSizeLineNotValidText", chunk_size_line)
    ELSE IF ~size.some THEN CbErr(cb, "InvalidChunkSize", <<>>)
    ELSE CbOk([cb EXCEPT !.chunk_bytes_needed = size.val,
                         !.state = IF size.val = 0 THEN "Trailer" ELSE "ChunkData"],
              "CompletePart", chunk_size_line_end + Len(CRLF)))))

\* A faulty variant of decode_terminator: a CR is waited on, whatever
\* follows it.
decode_terminator_patient(cb, raw_message) ==
    IF raw_message = <<>>
       \/ (raw_message[1] = CR /\ (Len(raw_message) < 2 \/ raw_message[2] # LF))
    THEN CbOk(cb, "Incomplete", 0)
    ELSE IF Len(raw_message) >= 2 /\ raw_message[1] = CR /\ raw_message[2] = LF
    THEN CbOk([cb EXCEPT !.state = "ChunkSize"], "CompletePart", 2)
    ELSE CbErr(cb, "InvalidChunkTerminator", raw_message)

\* A faulty variant of decode_terminator: a lone CR is consumed.
decode_terminator_hasty(cb, raw_message) ==
    IF raw_message = <<>> \/ raw_message = <<CR>>
    THEN CbOk(cb, "Incomplete", Len(raw_message))
    ELSE IF Len(raw_message) >= 2 /\ raw_message[1] = CR /\ raw_message[2] = LF
    THEN CbOk([cb EXCEPT !.state = "ChunkSize"], "CompletePart", 2)
    ELSE CbErr(cb, "InvalidChunkTerminator", raw_message)

\* ChunkedBody::decode_terminator
decode_terminator(cb, raw_message) ==
    IF raw_message = <<>> \/ raw_message = <<CR>> THEN CbOk(cb, "Incomplete", 0)
    ELSE IF Len(raw_message) >= 2 /\ raw_message[1] = CR /\ raw_message[2] = LF
    THEN CbOk([cb EXCEPT !.state = "ChunkSize"], "CompletePart", 2)
    ELSE CbErr(cb, "InvalidChunkTerminator", raw_message)

\* A faulty variant of decode_trailer: the collaborator's error is wrapped
\* as the main header block wraps it.
decode_trailer_as_headers(cb, raw_message) ==
    With(MessageHeaders_parse(cb.trailer, raw_message), LAMBDA parse_results :
    With([cb EXCEPT !.trailer = parse_results.mh], LAMBDA cb1 :
    IF ~parse_results.ok THEN CbErr(cb1, "Headers", <<parse_results.error>>)
    ELSE IF parse_results.status = "Complete"
    THEN CbOk(cb1, "CompleteWhole", parse_results.consumed)
    ELSE CbOk(cb1, "Incomplete", parse_results.consumed)))

\* ChunkedBody::decode_trailer
decode_trailer(cb, raw_message) ==
    With(MessageHeaders_parse(cb.trailer, raw_message), LAMBDA parse_results :
    With([cb EXCEPT !.trailer = parse_results.mh], LAMBDA cb1 :
    IF ~parse_results.ok THEN CbErr(cb1, "Trailer", <<parse_results.error>>)
    ELSE IF parse_results.status = "Complete"
    THEN CbOk(cb1, "CompleteWhole", parse_results.consumed)
    ELSE CbOk(cb1, "Incomplete", parse_results.consumed)))

\* The loop of ChunkedBody::decode, from total_consumed bytes into input.
RECURSIVE ChunkedBody_decode_from(_, _, _)
ChunkedBody_decode_from(cb, input, total_consumed) ==
    With(Drop(input, total_consumed), LAMBDA input_remainder :
    With(CASE cb.state = "ChunkData" -> decode_data(cb, input_remainder)
           [] cb.state = "ChunkSize" -> decode_size(cb, input_remainder)
           [] cb.state = "ChunkTerminator" -> decode_terminator(cb, input_remainder)
           [] cb.state = "Trailer" -> decode_trailer(cb, input_remainder),
         LAMBDA step :
    IF ~step.ok THEN step
    ELSE IF step.status = "CompletePart"
    THEN ChunkedBody_decode_from(step.cb, input, total_consumed + step.consumed)
    ELSE IF step.status = "CompleteWhole"
    THEN CbOk(step.cb, "Complete", total_consumed + step.consumed)
    ELSE CbOk(step.cb, "Incomplete", total_consumed + step.consumed)))

\* ChunkedBody::decode
ChunkedBody_decode(cb, input) == ChunkedBody_decode_from(cb, input, 0)

(***************************************************************************)
(* Response (src/src/response.rs).                                         *)
(***************************************************************************)
RspOk(r, status, consumed) ==
    [rsp |-> r, ok |-> TRUE, status |-> status, consumed |-> consumed,
     error |-> "", data |-> <<>>]

RspErr(r, error, data) ==
    [rsp |-> r, ok |-> FALSE, status |-> "", consumed |-> 0,
     error |-> error, data |-> data]

\* ResponseState::ChunkedBody(decoder), FixedBody(len), Headers, StatusLine
ResponseState(tag, content_length, chunked_body) ==
    [tag |-> tag, content_length |-> content_length, chunked_body |-> chunked_body]

\* impl Default for ResponseState
DefaultResponseState == ResponseState("StatusLine", 0, NewChunkedBody)

\* Response::new
NewResponse ==
    [body |-> <<>>,
     headers |-> NewMessageHeaders,
     reason_phrase |-> <<"O","K">>,
     state |-> DefaultResponseState,
     status_code |-> 200]

\* A faulty variant of parse_status_line: a status code of 1000 passes.
parse_status_line_lenient(status_line) ==
    LET Fail(e) == [ok |-> FALSE, error |-> e, status_code |-> 0, reason_phrase |-> <<>>]
    IN
    With(FindByte(status_line, {SP}), LAMBDA protocol_delimiter :
    With(Drop(status_line, protocol_delimiter + 1), LAMBDA status_line_at_status_code :
    With(FindByte(status_line_at_status_code, {SP}), LAMBDA status_code_delimiter :
    With(ParseUsize(Take(status_line_at_status_code, status_code_delimiter)),
         LAMBDA status_code :
    IF protocol_delimiter = -1 THEN Fail("StatusLineNoProtocolDelimiter")
    ELSE IF Take(status_line, protocol_delimiter) # HTTP11 THEN Fail("StatusLineProtocol")
    ELSE IF status_code_delimiter = -1 THEN Fail("StatusLineNoStatusCodeDelimiter")
    ELSE IF ~status_code.some THEN Fail("InvalidStatusCode")
    ELSE IF ~(status_code.val <= 1000) THEN Fail("StatusCodeOutOfRange")
    ELSE [ok |-> TRUE, error |-> "", status_code |-> status_code.val,
          reason_phrase |-> Drop(status_line_at_status_code,
                                 status_code_delimiter + 1)]))))

\* fn parse_status_line: Ok((status_code, reason_phrase)) or the error.
parse_status_line(status_line) ==
    LET Fail(e) == [ok |-> FALSE, error |-> e, status_code |-> 0, reason_phrase |-> <<>>]
    IN
    With(FindByte(status_line, {SP}), LAMBDA protocol_delimiter :
    With(Drop(status_line, protocol_delimiter + 1), LAMBDA status_line_at_status_code :
    With(FindByte(status_line_at_status_code, {SP}), LAMBDA status_code_delimiter :
    With(ParseUsize(Take(status_line_at_status_code, status_code_delimiter)),
         LAMBDA status_code :
    IF protocol_delimiter = -1 THEN Fail("StatusLineNoProtocolDelimiter")
    ELSE IF Take(status_line, protocol_delimiter) # HTTP11 THEN Fail("StatusLineProtocol")
    ELSE IF status_code_delimiter = -1 THEN Fail("StatusLineNoStatusCodeDelimiter")
    ELSE IF ~status_code.some THEN Fail("InvalidStatusCode")
    ELSE IF ~(status_code.val < 1000) THEN Fail("StatusCodeOutOfRange")
    ELSE [ok |-> TRUE, error |-> "", status_code |-> status_code.val,
          reason_phrase |-> Drop(status_line_at_status_code,
                                 status_code_delimiter + 1)]))))

RECURSIVE AddHeaders(_, _)
AddHeaders(mh, hs) ==
    IF Len(hs) = 0 THEN mh ELSE AddHeaders(add_header(mh, hs[1]), Tail(hs))

\* response.rs:378-390: the Transfer-Encoding header once the body is decoded.
rewrite_transfer_encoding(mh) ==
    With(header_tokens(mh, TransferEncodingName), LAMBDA tokens :
    With(Take(tokens, Len(tokens) - 1), LAMBDA transfer_encodings :
    IF Len(transfer_encodings) = 0
    THEN remove_header(mh, TransferEncodingName)
    ELSE set_header(mh, TransferEncodingName, JoinTokens(transfer_encodings, <<SP>>))))

\* response.rs:391-394: the Content-Length header added for the decoded body.
add_content_length(mh, body) ==
    add_header(mh, Header(ContentLengthName, UsizeToString(Len(body))))

\* A faulty variant of complete_chunked_body: the trailer is not promoted and
\* the Trailer header stays.
complete_chunked_body_without_trailer(r, chunked_body) ==
    [r EXCEPT !.body = chunked_body.buffer,
              !.headers = add_content_length(rewrite_transfer_encoding(r.headers),
                                             chunked_body.buffer),
              !.state = DefaultResponseState]

\* response.rs:373-400: what the response becomes when its decoder completes.
complete_chunked_body(r, chunked_body) ==
    LET promoted == AddHeaders(r.headers, chunked_body.trailer.headers)
        rewritten == rewrite_transfer_encoding(promoted)
        framed == add_content_length(rewritten, chunked_body.buffer)
    IN  [r EXCEPT !.body = chunked_body.buffer,
                  !.headers = remove_header(framed, TrailerName),
                  !.state = DefaultResponseState]

\* Response::parse_message_for_chunked_body
parse_message_for_chunked_body(r, raw_message, chunked_body) ==
    With(ChunkedBody_decode(chunked_body, raw_message), LAMBDA decoded :
    IF ~decoded.ok THEN RspErr(r, decoded.error, decoded.data)
    ELSE IF decoded.status = "Complete"
    THEN RspOk(complete_chunked_body(r, decoded.cb), "CompleteWhole", decoded.consumed)
    ELSE RspOk([r EXCEPT !.state = ResponseState("ChunkedBody", 0, decoded.cb)],
               "Incomplete", decoded.consumed))

\* A faulty variant of parse_message_for_fixed_body: it takes every byte it
\* is given for the body instead of stopping at Content-Length.
parse_message_for_fixed_body_greedy(r, raw_message, content_length) ==
    RspOk([r EXCEPT !.body = @ \o raw_message,
                    !.state = ResponseState("FixedBody", content_length, NewChunkedBody)],
          IF Len(raw_message) >= content_length - Len(r.body)
          THEN "CompleteWhole" ELSE "Incomplete",
          Len(raw_message))

\* A faulty variant of Response::parse_message_for_fixed_body: a partial body
\* is left with the caller until all of it has arrived.
parse_message_for_fixed_body_whole(r, raw_message, content_length) ==
    IF Len(raw_message) >= content_length - Len(r.body)
    THEN RspOk([r EXCEPT !.body = @ \o Take(raw_message, content_length - Len(@)),
                         !.state = ResponseState("FixedBody", content_length,
                                                 NewChunkedBody)],
               "CompleteWhole", content_length - Len(r.body))
    ELSE RspOk([r EXCEPT !.state = ResponseState("FixedBody", content_length,
                                                 NewChunkedBody)],
               "Incomplete", 0)

\* Response::parse_message_for_fixed_body
parse_message_for_fixed_body(r, raw_message, content_length) ==
    LET needed == content_length - Len(r.body)
        kept == ResponseState("FixedBody", content_length, NewChunkedBody)
    IN  IF Len(raw_message) >= needed
        THEN RspOk([r EXCEPT !.body = @ \o Take(raw_message, needed), !.state = kept],
                   "CompleteWhole", needed)
        ELSE RspOk([r EXCEPT !.body = @ \o raw_message, !.state = kept],
                   "Incomplete", Len(raw_message))

\* A faulty variant of the selection: the chunked token is looked for before
\* Content-Length.
select_framing_chunked_first(mh) ==
    IF has_header_token(mh, TransferEncodingName, ChunkedToken) THEN "ChunkedBody"
    ELSE IF header_value(mh, ContentLengthName).some THEN "FixedBody"
    ELSE "None"

\* response.rs:433-455: the state the completed header block selects.
select_framing(mh) ==
    LET value == header_value(mh, ContentLengthName)
    IN  IF value.some THEN "FixedBody"
        ELSE IF has_header_token(mh, TransferEncodingName, ChunkedToken)
        THEN "ChunkedBody"
        ELSE "None"

\* Response::parse_message_for_headers
Response_parse_message_for_headers(r, raw_message) ==
    With(MessageHeaders_parse(r.headers, raw_message), LAMBDA parse_results :
    With([r EXCEPT !.headers = parse_results.mh], LAMBDA r1 :
    With(header_value(r1.headers, ContentLengthName), LAMBDA value :
    With(ParseUsize(value.val), LAMBDA content_length :
    With(select_framing(r1.headers), LAMBDA framing :
    With(ResponseState("Headers", 0, NewChunkedBody), LAMBDA headers_state :
    IF ~parse_results.ok THEN RspErr(r1, "Headers", <<parse_results.error>>)
    ELSE IF parse_results.status = "Incomplete"
    THEN RspOk([r1 EXCEPT !.state = headers_state], "Incomplete",
               parse_results.consumed)
    ELSE IF framing = "FixedBody"
    THEN IF ~content_length.some
         THEN RspErr(r1, "InvalidContentLength", value.val)
         ELSE RspOk([r1 EXCEPT !.state = ResponseState("FixedBody",
                                    content_length.val, NewChunkedBody)],
                    "CompletePart", parse_results.consumed)
    ELSE IF framing = "ChunkedBody"
    THEN RspOk([r1 EXCEPT !.state = ResponseState("ChunkedBody", 0, NewChunkedBody)],
               "CompletePart", parse_results.consumed)
    ELSE RspOk([r1 EXCEPT !.state = headers_state], "CompleteWhole",
               parse_results.consumed)))))))

\* Response::parse_message_for_status_line
parse_message_for_status_line(r, raw_message) ==
    With(find_crlf(raw_message), LAMBDA status_line_end :
    With(Take(raw_message, status_line_end), LAMBDA status_line :
    With(parse_status_line(status_line), LAMBDA parsed :
    IF status_line_end = -1 THEN RspOk(r, "Incomplete", 0)
    ELSE IF ~IsUtf8(status_line)
    THEN RspErr(r, "StatusLineNotValidText", status_line)
    ELSE IF ~parsed.ok THEN RspErr(r, parsed.error, status_line)
    ELSE RspOk([r EXCEPT !.status_code = parsed.status_code,
                         !.reason_phrase = parsed.reason_phrase,
                         !.state = ResponseState("Headers", 0, NewChunkedBody)],
               "CompletePart", status_line_end + Len(CRLF)))))

\* A faulty variant of the loop of Response::parse: a failed step puts the
\* state it was given back into the response.
RECURSIVE Response_parse_from_restoring(_, _, _)
Response_parse_from_restoring(r, raw_message, total_consumed) ==
    With(Drop(raw_message, total_consumed), LAMBDA raw_message_remainder :
    With(r.state, LAMBDA state :
    With([r EXCEPT !.state = DefaultResponseState], LAMBDA taken :
    With(CASE state.tag = "ChunkedBody" ->
                parse_message_for_chunked_body(taken, raw_message_remainder,
                                               state.chunked_body)
           [] state.tag = "FixedBody" ->
                parse_message_for_fixed_body(taken, raw_message_remainder,
                                             state.content_length)
           [] state.tag = "Headers" ->
                Response_parse_message_for_headers(taken, raw_message_remainder)
           [] state.tag = "StatusLine" ->
                parse_message_for_status_line(taken, raw_message_remainder),
         LAMBDA step :
    IF ~step.ok THEN [step EXCEPT !.rsp.state = state]
    ELSE IF step.status = "CompletePart"
    THEN Response_parse_from_restoring(step.rsp, raw_message,
                                       total_consumed + step.consumed)
    ELSE IF step.status = "CompleteWhole"
    THEN RspOk(step.rsp, "Complete", total_consumed + step.consumed)
    ELSE RspOk(step.rsp, "Incomplete", total_consumed + step.consumed)))))

\* The loop of Response::parse, from total_consumed bytes into raw_message.
\* Each iteration takes the state out of the response, leaving the default
\* state behind; an error returns before the state is put back.
RECURSIVE Response_parse_from(_, _, _)
Response_parse_from(r, raw_message, total_consumed) ==
    With(Drop(raw_message, total_consumed), LAMBDA raw_message_remainder :
    With(r.state, LAMBDA state :
    With([r EXCEPT !.state = DefaultResponseState], LAMBDA taken :
    With(CASE state.tag = "ChunkedBody" ->
                parse_message_for_chunked_body(taken, raw_message_remainder,
                                               state.chunked_body)
           [] state.tag = "FixedBody" ->
                parse_message_for_fixed_body(taken, raw_message_remainder,
                                             state.content_length)
           [] state.tag = "Headers" ->
                Response_parse_message_for_headers(taken, raw_message_remainder)
           [] state.tag = "StatusLine" ->
                parse_message_for_status_line(taken, raw_message_remainder),
         LAMBDA step :
    IF ~step.ok THEN step
    ELSE IF step.status = "CompletePart"
    THEN Response_parse_from(step.rsp, raw_message, total_consumed + step.consumed)
    ELSE IF step.status = "CompleteWhole"
    THEN RspOk(step.rsp, "Complete", total_consumed + step.consumed)
    ELSE RspOk(step.rsp, "Incomplete", total_consumed + step.consumed)))))

\* Response::parse
Response_parse(r, raw_message) == Response_parse_from(r, raw_message, 0)

\* Response::generate
Response_generate(r) ==
    HTTP11 \o <<SP>> \o UsizeToString(r.status_code) \o <<SP>> \o r.reason_phrase
    \o CRLF \o MessageHeaders_generate(r.headers) \o r.body

(***************************************************************************)
(* The caller of Request::parse.  A scenario fixes the limits the caller   *)
(* set on the request and the bytes that arrive: a request M built from    *)
(* its parts, then trailing bytes T.  The caller receives the stream piece *)
(* by piece and, on every piece, calls parse with what is not yet consumed.*)
(***************************************************************************)
VARIABLES
    rq_in,      \* the scenario: limits, the parts of M, the wire bytes M \o T
    rq,         \* the Request value
    rq_pos,     \* bytes of the wire the parse calls reported consumed so far
    rq_avail,   \* bytes of the wire the caller has received so far
    rq_last     \* outcome of the latest parse call ("None" before the first)

\* The same for the caller of Response::parse.
VARIABLES rs_in, rs, rs_pos, rs_avail, rs_last

\* The same for a caller of ChunkedBody::decode.
VARIABLES cb_in, cb, cb_pos, cb_avail, cb_last

\* What the last call of generate returned, and on which kind of message.
VARIABLE generated

rqVars == <<rq_in, rq, rq_pos, rq_avail, rq_last>>
rsVars == <<rs_in, rs, rs_pos, rs_avail, rs_last>>
cbVars == <<cb_in, cb, cb_pos, cb_avail, cb_last>>

vars == <<rq_in, rq, rq_pos, rq_avail, rq_last, rs_in, rs, rs_pos, rs_avail, rs_last,
          cb_in, cb, cb_pos, cb_avail, cb_last,
          generated>>

RequestLine(method, target) == method \o <<SP>> \o target \o <<SP>> \o HTTP11

\* A well-formed request and the bytes after it.
RequestScenario(method, target, headers, body, trailing, rll, mms) ==
    [method |-> method, target |-> target, headers |-> headers, body |-> body,
     message |-> RequestLine(method, target) \o CRLF
                 \o GenerateHeaderLines(headers) \o CRLF \o body,
     trailing |-> trailing,
     request_line_limit |-> rll, max_message_size |-> mms]

Wire(in) == in.message \o in.trailing

HostName == <<"H","o","s","t">>
LowerContentLengthName == <<"c","o","n","t","e","n","t","-","l","e","n","g","t","h">>

RequestMethods == {<<"G","E","T">>}
RequestTargets == {<<"/">>, <<"/","a">>}

\* Header blocks with the body each one declares.
RequestFramings ==
    { [headers |-> <<>>, body |-> <<>>],
      [headers |-> <<Header(HostName, <<"a">>)>>, body |-> <<>>],
      [headers |-> <<Header(ContentLengthName, <<"0">>)>>, body |-> <<>>],
      [headers |-> <<Header(ContentLengthName, <<"3">>)>>, body |-> <<CR, LF, "x">>],
      [headers |-> <<Header(HostName, <<"a">>),
                     Header(LowerContentLengthName, <<"2">>)>>,
       body |-> <<"h", "i">>] }

RequestTrailings == {<<>>, <<"G">>, <<CR, LF, "x">>}

RequestLineLimits == {None, Some(14), Some(DefaultRequestLineLimit)}
MaxMessageSizes == {None, Some(20), Some(38), Some(40), Some(DefaultMaxMessageSize)}

RequestScenarios ==
    { RequestScenario(m, t, f.headers, f.body, x, rll, mms) :
        m \in RequestMethods, t \in RequestTargets, f \in RequestFramings,
        x \in RequestTrailings, rll \in RequestLineLimits, mms \in MaxMessageSizes }

NotGenerated == [of |-> "none", bytes |-> <<>>]

\* generate has not been called.
NothingGenerated == generated = NotGenerated

NoCall == [ok |-> TRUE, status |-> "None", consumed |-> 0, error |-> "", data |-> <<>>]

Outcome(res) ==
    [ok |-> res.ok, status |-> res.status, consumed |-> res.consumed,
     error |-> res.error, data |-> res.data]

(***************************************************************************)
(* The caller of Response::parse: a response M built from its parts (status*)
(* line, header block, and a body that is absent, of fixed length, or      *)
(* chunked with a trailer), then trailing bytes T.                         *)
(***************************************************************************)
StatusLine(status_code, reason_phrase) ==
    HTTP11 \o <<SP>> \o UsizeToString(status_code) \o <<SP>> \o reason_phrase

RECURSIVE UsizeToHex(_)
UsizeToHex(n) ==
    IF n < 16 THEN <<HexDigits[n + 1]>>
    ELSE Append(UsizeToHex(n \div 16), HexDigits[(n % 16) + 1])

Chunk(ext, data) == [ext |-> ext, data |-> data]

RECURSIVE ChunkBytes(_)
ChunkBytes(chunks) ==
    IF Len(chunks) = 0 THEN <<>>
    ELSE UsizeToHex(Len(chunks[1].data)) \o chunks[1].ext \o CRLF
         \o chunks[1].data \o CRLF \o ChunkBytes(Tail(chunks))

RECURSIVE ChunkData(_)
ChunkData(chunks) ==
    IF Len(chunks) = 0 THEN <<>> ELSE chunks[1].data \o ChunkData(Tail(chunks))

\* The wire form of a chunked body: the chunks, the zero-sized chunk, the
\* trailer block and the blank line closing it.
ChunkedBytes(chunks, trailer) ==
    ChunkBytes(chunks) \o <<"0">> \o CRLF \o GenerateHeaderLines(trailer) \o CRLF

NoBody == [kind |-> "none", body |-> <<>>, chunks |-> <<>>, trailer |-> <<>>]
FixedBody(body) == [kind |-> "fixed", body |-> body, chunks |-> <<>>, trailer |-> <<>>]
ChunkedBody(chunks, trailer) ==
    [kind |-> "chunked", body |-> ChunkData(chunks), chunks |-> chunks,
     trailer |-> trailer]

PayloadBytes(p) ==
    IF p.kind = "chunked" THEN ChunkedBytes(p.chunks, p.trailer) ELSE p.body

ResponseScenario(headers, payload, trailing) ==
    [status_code |-> 200, reason_phrase |-> <<"O","K">>,
     headers |-> headers, payload |-> payload,
     message |-> StatusLine(200, <<"O","K">>) \o CRLF
                 \o GenerateHeaderLines(headers) \o CRLF \o PayloadBytes(payload),
     trailing |-> trailing]

Foobar == <<"f","o","o","b","a","r">>
TEChunked == Header(TransferEncodingName, ChunkedToken)
TEFoobarChunked == Header(TransferEncodingName, Foobar \o <<",", SP>> \o ChunkedToken)
TEChunkedFoobar == Header(TransferEncodingName, ChunkedToken \o <<",", SP>> \o Foobar)

\* Header blocks with the body each one frames.
ResponseFramings ==
    { [headers |-> <<>>, payload |-> NoBody],
      [headers |-> <<Header(HostName, <<"a">>)>>, payload |-> NoBody],
      [headers |-> <<Header(ContentLengthName, <<"0">>)>>, payload |-> FixedBody(<<>>)],
      [headers |-> <<Header(LowerContentLengthName, <<"3">>)>>,
       payload |-> FixedBody(<<CR, LF, "x">>)],
      [headers |-> <<Header(ContentLengthName, <<"5">>), TEChunked>>,
       payload |-> FixedBody(<<"0", CR, LF, CR, LF>>)],
      [headers |-> <<TEChunked>>, payload |-> ChunkedBody(<<>>, <<>>)],
      [headers |-> <<TEChunked>>,
       payload |-> ChunkedBody(<<Chunk(<<>>, <<"h", "i">>)>>, <<>>)],
      [headers |-> <<TEChunked, Header(TrailerName, <<"X">>)>>,
       payload |-> ChunkedBody(<<Chunk(<<>>, <<"a">>), Chunk(<<>>, <<CR, LF>>)>>,
                               <<Header(<<"X">>, <<"1">>), Header(<<"Y">>, <<"2">>)>>)],
      [headers |-> <<TEChunked>>,
       payload |-> ChunkedBody(<<Chunk(<<";", "x">>, <<"a">>)>>,
                               <<Header(ContentLengthName, <<"7">>)>>)],
      [headers |-> <<TEFoobarChunked>>,
       payload |-> ChunkedBody(<<Chunk(<<>>, <<"a">>)>>, <<>>)],
      [headers |-> <<TEChunkedFoobar>>,
       payload |-> ChunkedBody(<<Chunk(<<>>, <<"a">>)>>, <<>>)] }

ResponseTrailings == {<<>>, <<CR, LF, "x">>}

ResponseScenarios ==
    { ResponseScenario(f.headers, f.payload, x) :
        f \in ResponseFramings, x \in ResponseTrailings }

\* No response is being parsed: nothing is on the wire.
ResponseIdle ==
    /\ rs_in = [ResponseScenario(<<>>, NoBody, <<>>) EXCEPT !.message = <<>>]
    /\ rs = NewResponse
    /\ rs_pos = 0
    /\ rs_avail = 0
    /\ rs_last = NoCall

\* A stream handed to a chunked-body decoder: message, then trailing bytes.
DecoderScenario(message, trailing) == [message |-> message, trailing |-> trailing]

\* No chunked body is being decoded: nothing is on the wire.
DecoderIdle ==
    /\ cb_in = DecoderScenario(<<>>, <<>>)
    /\ cb = NewChunkedBody
    /\ cb_pos = 0
    /\ cb_avail = 0
    /\ cb_last = NoCall

RequestInit ==
    /\ rq_in \in RequestScenarios
    /\ rq = NewRequest(rq_in.request_line_limit, rq_in.max_message_size)
    /\ rq_pos = 0
    /\ rq_avail = 0
    /\ rq_last = NoCall

\* No request is being parsed: nothing is on the wire.
RequestIdle ==
    /\ rq_in = [RequestScenario(<<"G","E","T">>, <<"/">>, <<>>, <<>>, <<>>, None, None)
                EXCEPT !.message = <<>>]
    /\ rq = NewRequest(None, None)
    /\ rq_pos = 0
    /\ rq_avail = 0
    /\ rq_last = NoCall

\* The caller receives the next k bytes and calls parse with the bytes it
\* holds: those not yet consumed, followed by the new piece.
\* What a call of Request::parse ends in, by build, when the addition of the
\* declared Content-Length in count_bytes does not fit the word
\* (request.rs:129, reached from request.rs:403).  With overflow checks (the
\* dev profile) the addition panics and total_bytes keeps its value.  Without
\* them (the release profile) the total wraps, the comparison with
\* max_message_size is made on the wrapped total, and when it passes
\* `self.body.reserve(content_length)` (request.rs:404) panics, the capacity
\* asked for being above isize::MAX.  Every other result is the same in both
\* builds.
BuildOutcomes(res) ==
    IF res.error # "AddOverflow"
    THEN {res}
    ELSE {ReqErr(res.req, "Panic", <<"attempt to add with overflow">>)}
         \cup {With(count_bytes(res.req, ParseUsize(res.data).val), LAMBDA wrapped :
                    IF ~wrapped.ok
                    THEN ReqErr(wrapped.req, "MessageTooLong", <<>>)
                    ELSE ReqErr(wrapped.req, "Panic", <<"capacity overflow">>))}

RequestFeed(k) ==
    /\ rq_last.ok
    /\ rq_last.status # "Complete"
    /\ rq_avail + k <= Len(Wire(rq_in))
    /\ \E res \in BuildOutcomes(Request_parse(rq,
                         SubSeq(Wire(rq_in), rq_pos + 1, rq_avail + k))) :
           /\ rq' = res.req
           /\ rq_pos' = rq_pos + res.consumed
           /\ rq_last' = Outcome(res)
    /\ rq_avail' = rq_avail + k
    /\ UNCHANGED rq_in
    /\ UNCHANGED <<rsVars, cbVars, generated>>

RequestNext == \E k \in 1..Len(Wire(rq_in)) : RequestFeed(k)

InitRequest == RequestInit /\ ResponseIdle /\ DecoderIdle /\ NothingGenerated

SpecRequest == InitRequest /\ [][RequestNext]_vars

ResponseInit ==
    /\ rs_in \in ResponseScenarios
    /\ rs = NewResponse
    /\ rs_pos = 0
    /\ rs_avail = 0
    /\ rs_last = NoCall

ResponseFeed(k) ==
    /\ rs_last.ok
    /\ rs_last.status # "Complete"
    /\ rs_avail + k <= Len(Wire(rs_in))
    /\ \E res \in {Response_parse(rs, SubSeq(Wire(rs_in), rs_pos + 1, rs_avail + k))} :
           /\ rs' = res.rsp
           /\ rs_pos' = rs_pos + res.consumed
           /\ rs_last' = Outcome(res)
    /\ rs_avail' = rs_avail + k
    /\ UNCHANGED rs_in
    /\ UNCHANGED <<rqVars, cbVars, generated>>

ResponseNext == \E k \in 1..Len(Wire(rs_in)) : ResponseFeed(k)

InitResponse == ResponseInit /\ RequestIdle /\ DecoderIdle /\ NothingGenerated

SpecResponse == InitResponse /\ [][ResponseNext]_vars

(***************************************************************************)
(* Properties of the request parser.                                       *)
(***************************************************************************)
RequestLineLength(in) == Len(RequestLine(in.method, in.target))

\* Request line with its CRLF, header block with its blank line, and the
\* declared Content-Length (the scenarios declare the body they carry).
FramedLength(in) ==
    RequestLineLength(in) + 2 + Len(GenerateHeaderLines(in.headers)) + 2 + Len(in.body)

WithinRequestLineLimit(in) ==
    in.request_line_limit.some => RequestLineLength(in) <= in.request_line_limit.val

WithinMaxMessageSize(in) ==
    in.max_message_size.some => FramedLength(in) <= in.max_message_size.val

\* A single parse call on exactly the bytes of M, on a fresh request.
OneShot(in) ==
    Request_parse(NewRequest(in.request_line_limit, in.max_message_size), in.message)

SameRequest(a, b) ==
    /\ a.method = b.method
    /\ a.target = b.target
    /\ a.headers = b.headers
    /\ a.body = b.body

\* The bytes a parse call taken in this step is given.
RequestPresented == SubSeq(Wire(rq_in), rq_pos + 1, rq_avail')

RequestCalled == rq_avail' > rq_avail

\* C1: for a valid request within the limits, however it is cut into pieces,
\* no parse call fails, and once all of M has been presented the latest call
\* returned Complete, the consumed counts sum to |M|, and method, target,
\* headers and body are those of a single parse(M).
C1_IncrementalEquivalence ==
    (WithinRequestLineLimit(rq_in) /\ WithinMaxMessageSize(rq_in)) =>
        /\ rq_last.ok
        /\ rq_avail >= Len(rq_in.message) =>
              /\ rq_last.status = "Complete"
              /\ rq_pos = Len(rq_in.message)
              /\ OneShot(rq_in).ok
              /\ OneShot(rq_in).status = "Complete"
              /\ SameRequest(rq, OneShot(rq_in).req)

\* The same with the request line shorter than the limit.
IncrementalEquivalenceBelowLimit ==
    (rq_in.request_line_limit.some =>
        RequestLineLength(rq_in) < rq_in.request_line_limit.val) =>
    C1_IncrementalEquivalence

\* C10: when the request line is no longer than request_line_limit, no parse
\* call returns RequestLineTooLong, wherever the input is cut.
C10_NoSpuriousRequestLineTooLong ==
    WithinRequestLineLimit(rq_in) => rq_last.error # "RequestLineTooLong"

\* C5: with max_message_size = Some(N), a request that is valid but for its
\* framed length exceeding N fails with MessageTooLong however it is cut:
\* it never completes, no other error is returned, and once all of M has
\* been presented the error has been returned.
C5_SizeLimit ==
    (/\ rq_in.max_message_size.some
     /\ FramedLength(rq_in) > rq_in.max_message_size.val
     /\ WithinRequestLineLimit(rq_in)) =>
        /\ rq_last.ok => rq_last.status # "Complete"
        /\ ~rq_last.ok => rq_last.error = "MessageTooLong"
        /\ rq_avail >= Len(rq_in.message) => ~rq_last.ok

SizeLimitBelowLineLimit ==
    (rq_in.request_line_limit.some =>
        RequestLineLength(rq_in) < rq_in.request_line_limit.val) =>
    C5_SizeLimit

\* C9 as stated: in AwaitingRequestLine with a limit set, a call whose input
\* has its first CRLF beyond the limit, or has no CRLF while at least limit
\* bytes have arrived, fails with RequestLineTooLong carrying the first
\* limit bytes of the input.
C9_AsStated ==
    [][ (/\ RequestCalled
         /\ rq.state.tag = "RequestLine"
         /\ rq.request_line_limit.some
         /\ \/ find_crlf(RequestPresented) > rq.request_line_limit.val
            \/ /\ find_crlf(RequestPresented) = -1
               /\ Len(RequestPresented) >= rq.request_line_limit.val)
        => (/\ ~rq_last'.ok
            /\ rq_last'.error = "RequestLineTooLong"
            /\ rq_last'.data = Take(RequestPresented, rq.request_line_limit.val)) ]_vars

\* C9 amended: ... or has no CRLF while more than limit bytes have arrived ...
C9_RequestLineLimit ==
    [][ (/\ RequestCalled
         /\ rq.state.tag = "RequestLine"
         /\ rq.request_line_limit.some
         /\ \/ find_crlf(RequestPresented) > rq.request_line_limit.val
            \/ /\ find_crlf(RequestPresented) = -1
               /\ Len(RequestPresented) > rq.request_line_limit.val)
        => (/\ ~rq_last'.ok
            /\ rq_last'.error = "RequestLineTooLong"
            /\ rq_last'.data = Take(RequestPresented, rq.request_line_limit.val)) ]_vars

\* C3: for a valid request within the limits, a call whose input reaches the
\* end of M and goes on into the trailing bytes returns Complete, the
\* consumed counts then sum to |M|, and headers and body hold nothing of T.
C3_NoOverConsume ==
    [][ (/\ RequestCalled
         /\ WithinRequestLineLimit(rq_in) /\ WithinMaxMessageSize(rq_in)
         /\ rq_avail' >= Len(rq_in.message))
        => (/\ rq_last'.ok
            /\ rq_last'.status = "Complete"
            /\ rq_pos' = Len(rq_in.message)
            /\ rq'.body = rq_in.body
            /\ rq'.headers.headers = rq_in.headers) ]_vars

\* A request with a body completed by a call that was also given bytes of T.
C3_Witness ==
    /\ rq_last.ok
    /\ rq_last.status = "Complete"
    /\ WithinRequestLineLimit(rq_in) /\ WithinMaxMessageSize(rq_in)
    /\ rq_avail > Len(rq_in.message)
    /\ rq_pos = Len(rq_in.message)
    /\ Len(rq.body) > 0

\* More than limit bytes of a request line that is too long were presented
\* with no CRLF among them, and the error carries the first limit of them.
C9_Witness ==
    /\ rq_in.request_line_limit.some
    /\ RequestLineLength(rq_in) > rq_in.request_line_limit.val
    /\ rq_avail > rq_in.request_line_limit.val
    /\ find_crlf(Take(Wire(rq_in), rq_avail)) = -1
    /\ ~rq_last.ok
    /\ rq_last.error = "RequestLineTooLong"
    /\ rq_last.data = Take(Wire(rq_in), rq_in.request_line_limit.val)

\* Request line with its CRLF and header block with its blank line.
HeadLength(in) ==
    RequestLineLength(in) + 2 + Len(GenerateHeaderLines(in.headers)) + 2

\* C11: a call after which the running total exceeds max_message_size fails
\* with MessageTooLong; and when the call that is given the end of the
\* header block finds request line, headers and declared Content-Length
\* over the cap, it fails with MessageTooLong and body stays empty, body
\* bytes in the same slice or not.
C11_EagerSizeCheck ==
    [][ RequestCalled =>
        /\ (rq.max_message_size.some
            /\ rq'.total_bytes > rq.max_message_size.val)
           => (~rq_last'.ok /\ rq_last'.error = "MessageTooLong")
        /\ (/\ rq.max_message_size.some
            /\ WithinRequestLineLimit(rq_in)
            /\ rq.state.tag # "Body"
            /\ rq_avail' >= HeadLength(rq_in)
            /\ FramedLength(rq_in) > rq.max_message_size.val)
           => (/\ ~rq_last'.ok
               /\ rq_last'.error = "MessageTooLong"
               /\ rq'.body = <<>>) ]_vars

\* The header block fits the cap, the declared Content-Length does not, and
\* the failing call was given body bytes too.
C11_Witness ==
    /\ rq_in.max_message_size.some
    /\ HeadLength(rq_in) <= rq_in.max_message_size.val
    /\ FramedLength(rq_in) > rq_in.max_message_size.val
    /\ rq_avail > HeadLength(rq_in)
    /\ ~rq_last.ok
    /\ rq_last.error = "MessageTooLong"
    /\ rq.body = <<>>
    /\ rq.total_bytes > rq_in.max_message_size.val

\* C27: a new Request has request_line_limit Some(1000), max_message_size
\* Some(10000000), state RequestLine and total_bytes 0; a request whose
\* request_line_limit is None never fails with RequestLineTooLong, and one
\* whose max_message_size is None never fails with MessageTooLong.
C27_LimitsAndDisabling ==
    /\ Request_new.request_line_limit = Some(1000)
    /\ Request_new.max_message_size = Some(10000000)
    /\ Request_new.state.tag = "RequestLine"
    /\ Request_new.total_bytes = 0
    /\ rq_last = NoCall =>
          rq = [Request_new EXCEPT !.request_line_limit = rq_in.request_line_limit,
                                   !.max_message_size = rq_in.max_message_size]
    /\ ~rq_in.request_line_limit.some => rq_last.error # "RequestLineTooLong"
    /\ ~rq_in.max_message_size.some => rq_last.error # "MessageTooLong"

\* A request with both limits disabled, its request line longer than 14
\* bytes and its framed length over 40, has completed.
C27_Witness ==
    /\ ~rq_in.request_line_limit.some
    /\ ~rq_in.max_message_size.some
    /\ RequestLineLength(rq_in) > 14
    /\ FramedLength(rq_in) > 40
    /\ rq_last.status = "Complete"
    /\ rq.total_bytes = FramedLength(rq_in)

\* C32: after a successful call that leaves the request awaiting its request
\* line or its headers, total_bytes is the sum of the consumed counts
\* returned so far; once the request awaits a body of n bytes it is the
\* request line with its CRLF, the header block and n, however many body
\* bytes have been consumed.
C32_RunningTotal ==
    (rq_last.ok /\ rq_last.status # "None") =>
        /\ rq.state.tag \in {"RequestLine", "Headers"} => rq.total_bytes = rq_pos
        /\ rq.state.tag = "Body" =>
              /\ rq.state.content_length = Len(rq_in.body)
              /\ rq.total_bytes = HeadLength(rq_in) + rq.state.content_length

\* A request awaiting a body of three bytes has consumed one of them in a
\* call of its own.
C32_Witness ==
    /\ rq.state.tag = "Body"
    /\ rq.state.content_length = 3
    /\ rq_last.status = "Incomplete"
    /\ rq_last.consumed = 1
    /\ Len(rq.body) = 1
    /\ rq_pos = HeadLength(rq_in) + 1
    /\ rq.total_bytes = HeadLength(rq_in) + 3

\* C23: a request whose request line with its CRLF, header block and
\* declared Content-Length together are at most max_message_size is not
\* rejected with MessageTooLong by any call, however the input is cut.
C23_NoSpuriousMessageTooLong ==
    WithinMaxMessageSize(rq_in) => rq_last.error # "MessageTooLong"

\* A request of exactly max_message_size bytes, cut into pieces, is complete.
C23_Witness ==
    /\ rq_in.max_message_size.some
    /\ FramedLength(rq_in) = rq_in.max_message_size.val
    /\ Len(rq_in.body) > 0
    /\ rq_last.status = "Complete"
    /\ rq_last.consumed < FramedLength(rq_in)
    /\ rq.total_bytes = rq_in.max_message_size.val

(***************************************************************************)
(* Properties of the response parser and the chunked-body decoder.         *)
(***************************************************************************)

\* A single parse call on exactly the bytes of M, on a fresh response.
ResponseOneShot(in) == Response_parse(NewResponse, in.message)

SameResponse(a, b) ==
    /\ a.status_code = b.status_code
    /\ a.reason_phrase = b.reason_phrase
    /\ a.headers = b.headers
    /\ a.body = b.body

ResponseCalled == rs_avail' > rs_avail

ChunkedComplete == rs_last.status = "Complete" /\ rs_in.payload.kind = "chunked"

\* C2: for a valid response (body-less, fixed-length or chunked with a
\* trailer), however it is cut into pieces, no parse call fails, and once all
\* of M has been presented the latest call returned Complete, the consumed
\* counts sum to |M|, and status code, reason phrase, headers and body are
\* those of a single parse(M); while the chunked decoder is at work the
\* bytes it has decoded are the first bytes of the chunk data.
C2_ResponseIncrementalEquivalence ==
    /\ rs_last.ok
    /\ rs.state.tag = "ChunkedBody" =>
          /\ Len(rs.state.chunked_body.buffer) <= Len(rs_in.payload.body)
          /\ rs.state.chunked_body.buffer =
                Take(rs_in.payload.body, Len(rs.state.chunked_body.buffer))
    /\ rs_avail >= Len(rs_in.message) =>
          /\ rs_last.status = "Complete"
          /\ rs_pos = Len(rs_in.message)
          /\ ResponseOneShot(rs_in).ok
          /\ ResponseOneShot(rs_in).status = "Complete"
          /\ SameResponse(rs, ResponseOneShot(rs_in).rsp)
          /\ rs.body = rs_in.payload.body

\* C4: for a valid response of any of the three framings, a call whose input
\* reaches the end of M and goes on into the trailing bytes returns Complete
\* and the consumed counts then sum to |M|; the body holds nothing of T.
C4_ResponseNoOverConsume ==
    [][ (ResponseCalled /\ rs_avail' >= Len(rs_in.message))
        => (/\ rs_last'.ok
            /\ rs_last'.status = "Complete"
            /\ rs_pos' = Len(rs_in.message)
            /\ rs'.body = rs_in.payload.body) ]_vars

\* C6: once a response decoded as chunked is Complete, its Transfer-Encoding
\* holds no chunked token, wherever chunked stood in the token list.
C6_ChunkedRemoved ==
    ChunkedComplete => ~has_header_token(rs.headers, TransferEncodingName, ChunkedToken)

\* C7: once a chunked response is Complete, body is the chunk data in order,
\* as long as the declared chunk sizes together, and the value of
\* Content-Length is body.len(), whatever the trailer block holds.
C7_ChunkedBodyAndLength ==
    ChunkedComplete =>
        /\ rs.body = ChunkData(rs_in.payload.chunks)
        /\ header_value(rs.headers, ContentLengthName)
              = [some |-> TRUE, val |-> UsizeToString(Len(rs.body))]

\* The body half of C7 alone.
ChunkedBodyIsChunkData ==
    ChunkedComplete => rs.body = ChunkData(rs_in.payload.chunks)

C2_Witness ==
    /\ ChunkedComplete
    /\ Len(rs_in.payload.trailer) > 0
    /\ rs_avail = Len(rs_in.message)
    /\ rs_pos = Len(rs_in.message)
    /\ rs_last.consumed < rs_pos
    /\ SameResponse(rs, ResponseOneShot(rs_in).rsp)

\* A chunked response with a trailer completed by a call that was also given
\* bytes of T.
C4_Witness ==
    /\ ChunkedComplete
    /\ Len(rs_in.payload.trailer) > 0
    /\ Len(rs_in.trailing) > 0
    /\ rs_avail > Len(rs_in.message)
    /\ rs_pos = Len(rs_in.message)

\* The same for a fixed-length body and for a body-less response.
FixedTrailingReached ==
    /\ rs_last.status = "Complete"
    /\ rs_in.payload.kind = "fixed"
    /\ Len(rs.body) > 0
    /\ rs_avail > Len(rs_in.message)

NoBodyTrailingReached ==
    /\ rs_last.status = "Complete"
    /\ rs_in.payload.kind = "none"
    /\ rs_avail > Len(rs_in.message)

InitMessages ==
    /\ (RequestInit /\ ResponseIdle) \/ (ResponseInit /\ RequestIdle)
    /\ DecoderIdle
    /\ NothingGenerated

MessagesNext == RequestNext \/ ResponseNext

SpecMessages == InitMessages /\ [][MessagesNext]_vars

\* Status line with its CRLF and header block with its blank line.
ResponseHeadLength(in) ==
    Len(StatusLine(in.status_code, in.reason_phrase)) + 2
    + Len(GenerateHeaderLines(in.headers)) + 2

DeclaresLength(headers) ==
    \E i \in 1..Len(headers) : EqIgnoreCase(headers[i].name, ContentLengthName)

\* What C12 says of a message whose head is head bytes long and declares n
\* body bytes, after a successful call that left avail bytes received and
\* pos bytes consumed.
FixedLengthBody(wire, head, n, avail, pos, last, body) ==
    (last.ok /\ last.status # "None") =>
        /\ last.status = "Complete" <=> (avail >= head /\ Len(body) = n)
        /\ last.status = "Complete" => body = SubSeq(wire, head + 1, head + n)
        /\ avail < head + n =>
              /\ last.status = "Incomplete"
              /\ avail >= head => (pos = avail /\ body = SubSeq(wire, head + 1, avail))

\* C12: for a request or response with a Content-Length header of value n,
\* once the header block has been given, parse returns Complete exactly when
\* body holds n bytes, body is then the first n bytes after the blank line,
\* and while fewer than n body bytes have been given every call returns
\* Incomplete and has consumed all the body bytes it was given.
C12_FixedLengthBody ==
    /\ DeclaresLength(rq_in.headers) =>
          FixedLengthBody(Wire(rq_in), HeadLength(rq_in), Len(rq_in.body),
                          rq_avail, rq_pos, rq_last, rq.body)
    /\ rs_in.payload.kind = "fixed" =>
          FixedLengthBody(Wire(rs_in), ResponseHeadLength(rs_in),
                          Len(rs_in.payload.body), rs_avail, rs_pos, rs_last, rs.body)

\* A response body of three bytes of which two have arrived, in a call of
\* its own.
C12_Witness ==
    /\ rs_in.payload.kind = "fixed"
    /\ Len(rs_in.payload.body) = 3
    /\ rs_avail = ResponseHeadLength(rs_in) + 2
    /\ rs_last.ok
    /\ rs_last.status = "Incomplete"
    /\ rs_last.consumed = 1
    /\ Len(rs.body) = 2


\* The bytes the fields of a request account for.
RequestCommitted ==
    IF rq.state.tag = "RequestLine" THEN <<>>
    ELSE RequestLine(rq.method, rq.target) \o CRLF
         \o GenerateHeaderLines(rq.headers.headers)
         \o (IF rq.state.tag = "Body" \/ rq_last.status = "Complete"
             THEN CRLF ELSE <<>>)
         \o rq.body

\* The bytes the fields of a response account for, its decoder aside.
ResponseCommitted ==
    IF rs.state.tag = "StatusLine" THEN <<>>
    ELSE StatusLine(rs.status_code, rs.reason_phrase) \o CRLF
         \o GenerateHeaderLines(rs.headers.headers)
         \o (IF rs.state.tag \in {"FixedBody", "ChunkedBody"}
                \/ rs_last.status = "Complete"
             THEN CRLF ELSE <<>>)
         \o rs.body

\* The chunk data lying within the first d bytes of the chunks' wire form.
RECURSIVE ChunkDataWithin(_, _)
ChunkDataWithin(chunks, d) ==
    IF Len(chunks) = 0 THEN <<>>
    ELSE With(Len(UsizeToHex(Len(chunks[1].data))) + Len(chunks[1].ext) + 2,
              LAMBDA size_line :
         With(Len(chunks[1].data), LAMBDA size :
         IF d < size_line THEN <<>>
         ELSE Take(chunks[1].data, Min(size, d - size_line))
              \o (IF d >= size_line + size + 2
                  THEN ChunkDataWithin(Tail(chunks), d - size_line - size - 2)
                  ELSE <<>>)))

\* The decoder of a chunked response holds what the d bytes it consumed
\* carry: the chunk data among them and, past the zero-sized chunk, the
\* trailer lines among them.
DecoderCommitted(decoder, d) ==
    /\ d >= 0
    /\ decoder.buffer = ChunkDataWithin(rs_in.payload.chunks, d)
    /\ IF d <= Len(ChunkBytes(rs_in.payload.chunks))
       THEN decoder.trailer = NewMessageHeaders
       ELSE /\ decoder.state = "Trailer"
            /\ d = Len(ChunkBytes(rs_in.payload.chunks)) + 3
                   + Len(GenerateHeaderLines(decoder.trailer.headers))

\* C13: after every call of Request::parse and Response::parse that returns
\* Ok, and of ChunkedBody::decode under the latter, consumed lies between 0
\* and the length of the input, and the fields hold exactly the bytes
\* reported consumed so far: start line, header lines, blank line, body and
\* decoder buffer account for the consumed prefix of the stream, byte for
\* byte, and for nothing after it.
C13_ConsumedAccounting ==
    /\ rq_last.ok =>
          /\ rq_last.consumed >= 0
          /\ rq_pos <= rq_avail
          /\ RequestCommitted = Take(Wire(rq_in), rq_pos)
    /\ rs_last.ok =>
          /\ rs_last.consumed >= 0
          /\ rs_pos <= rs_avail
          /\ IF rs.state.tag = "ChunkedBody"
             THEN /\ ResponseCommitted = Take(Wire(rs_in), ResponseHeadLength(rs_in))
                  /\ DecoderCommitted(rs.state.chunked_body,
                                      rs_pos - ResponseHeadLength(rs_in))
             ELSE IF ChunkedComplete
             THEN /\ rs_pos = Len(rs_in.message)
                  /\ rs.body = ChunkData(rs_in.payload.chunks)
             ELSE ResponseCommitted = Take(Wire(rs_in), rs_pos)

\* A call given the end of a chunk's data together with bytes that follow
\* it, of which it consumed a part: the decoder stands within the trailer.
C13_Witness ==
    /\ rs.state.tag = "ChunkedBody"
    /\ rs.state.chunked_body.state = "Trailer"
    /\ rs.state.chunked_body.trailer.headers # <<>>
    /\ rs_last.ok
    /\ rs_last.consumed > 0
    /\ rs_pos < rs_avail


\* The header block of the response names the chunked transfer coding.
DeclaresChunked(headers) ==
    has_header_token([headers |-> headers], TransferEncodingName, ChunkedToken)

\* C14: after a successful call that was given the end of the header block,
\* a response with Content-Length is in FixedBody(len) and its body holds
\* the bytes after the blank line as they are, Transfer-Encoding: chunked
\* or not; otherwise a response whose Transfer-Encoding holds the chunked
\* token is in ChunkedBody, with a fresh decoder when nothing past the blank
\* line was given, or complete with the decoded body; otherwise the
\* response is Complete with an empty body.
C14_FramingSelection ==
    (rs_last.ok /\ rs_last.status # "None"
     /\ rs_avail >= ResponseHeadLength(rs_in)) =>
        IF DeclaresLength(rs_in.headers)
        THEN /\ rs.state = ResponseState("FixedBody", Len(rs_in.payload.body),
                                         NewChunkedBody)
             /\ rs.body = SubSeq(Wire(rs_in), ResponseHeadLength(rs_in) + 1,
                                 Min(rs_avail, Len(rs_in.message)))
        ELSE IF DeclaresChunked(rs_in.headers)
        THEN IF rs_avail = ResponseHeadLength(rs_in)
             THEN /\ rs.state = ResponseState("ChunkedBody", 0, NewChunkedBody)
                  /\ rs_last.status = "Incomplete"
             ELSE \/ rs.state.tag = "ChunkedBody" /\ rs_last.status = "Incomplete"
                  \/ /\ rs_last.status = "Complete"
                     /\ rs.body = ChunkData(rs_in.payload.chunks)
        ELSE /\ rs_last.status = "Complete"
             /\ rs.body = <<>>
             /\ rs_pos = ResponseHeadLength(rs_in)

\* A response with both Content-Length and Transfer-Encoding: chunked is
\* complete, its body the chunked bytes undecoded.
C14_Witness ==
    /\ DeclaresLength(rs_in.headers)
    /\ DeclaresChunked(rs_in.headers)
    /\ rs_last.status = "Complete"
    /\ rs.body = <<"0", CR, LF, CR, LF>>


(***************************************************************************)
(* A caller that keeps calling parse on the same instance after Complete,  *)
(* with the bytes that follow the message on the stream: the start of a    *)
(* next message, or a line that reads as a header.                         *)
(***************************************************************************)
NextRequestBytes == RequestLine(<<"G","E","T">>, <<"/","b">>) \o CRLF \o CRLF
NextResponseBytes == StatusLine(404, <<"N">>) \o CRLF \o CRLF
HeaderLikeBytes == <<"X", ":", SP, "1">> \o CRLF \o CRLF

ReuseRequestScenarios ==
    { RequestScenario(<<"G","E","T">>, <<"/">>, f.headers, f.body, x, None, None) :
        f \in RequestFramings, x \in {NextRequestBytes, HeaderLikeBytes} }

ReuseResponseScenarios ==
    { ResponseScenario(f.headers, f.payload, x) :
        f \in ResponseFramings, x \in {NextResponseBytes, HeaderLikeBytes} }

InitReuse ==
    \/ /\ rq_in \in ReuseRequestScenarios
       /\ rq = NewRequest(None, None)
       /\ rq_pos = 0
       /\ rq_avail = 0
       /\ rq_last = NoCall
       /\ ResponseIdle
       /\ DecoderIdle
       /\ NothingGenerated
    \/ /\ rs_in \in ReuseResponseScenarios
       /\ rs = NewResponse
       /\ rs_pos = 0
       /\ rs_avail = 0
       /\ rs_last = NoCall
       /\ RequestIdle
       /\ DecoderIdle
       /\ NothingGenerated

\* Request::parse called again after it returned Complete.
RequestAgain(k) ==
    /\ rq_last.ok
    /\ rq_last.status = "Complete"
    /\ rq_avail + k <= Len(Wire(rq_in))
    /\ \E res \in BuildOutcomes(Request_parse(rq,
                         SubSeq(Wire(rq_in), rq_pos + 1, rq_avail + k))) :
           /\ rq' = res.req
           /\ rq_pos' = rq_pos + res.consumed
           /\ rq_last' = Outcome(res)
    /\ rq_avail' = rq_avail + k
    /\ UNCHANGED rq_in
    /\ UNCHANGED <<rsVars, cbVars, generated>>

\* Response::parse called again after it returned Complete.
ResponseAgain(k) ==
    /\ rs_last.ok
    /\ rs_last.status = "Complete"
    /\ rs_avail + k <= Len(Wire(rs_in))
    /\ \E res \in {Response_parse(rs, SubSeq(Wire(rs_in), rs_pos + 1, rs_avail + k))} :
           /\ rs' = res.rsp
           /\ rs_pos' = rs_pos + res.consumed
           /\ rs_last' = Outcome(res)
    /\ rs_avail' = rs_avail + k
    /\ UNCHANGED rs_in
    /\ UNCHANGED <<rqVars, cbVars, generated>>

ReuseNext ==
    \/ RequestNext
    \/ ResponseNext
    \/ \E k \in 1..Len(rq_in.trailing) : RequestAgain(k)
    \/ \E k \in 1..Len(rs_in.trailing) : ResponseAgain(k)

SpecReuse == InitReuse /\ [][ReuseNext]_vars

\* C15: a parse call on an instance whose latest call returned Complete
\* consumes nothing and leaves method and target (or status_code and
\* reason_phrase), headers and body as they were.
C15_ImmutableAfterComplete ==
    [][ /\ (rq_last.status = "Complete" /\ RequestCalled) =>
              /\ rq_pos' = rq_pos
              /\ rq'.method = rq.method
              /\ rq'.target = rq.target
              /\ rq'.headers = rq.headers
              /\ rq'.body = rq.body
        /\ (rs_last.status = "Complete" /\ ResponseCalled) =>
              /\ rs_pos' = rs_pos
              /\ rs'.status_code = rs.status_code
              /\ rs'.reason_phrase = rs.reason_phrase
              /\ rs'.headers = rs.headers
              /\ rs'.body = rs.body ]_vars

\* The same for the messages with a Content-Length header, whose state
\* stays Body(n) / FixedBody(n) once the body is whole.
FixedLengthImmutableAfterComplete ==
    [][ /\ (rq_last.status = "Complete" /\ RequestCalled
            /\ DeclaresLength(rq_in.headers)) =>
              (rq_pos' = rq_pos /\ rq' = rq /\ rq_last'.status = "Complete")
        /\ (rs_last.status = "Complete" /\ ResponseCalled
            /\ DeclaresLength(rs_in.headers)) =>
              (rs_pos' = rs_pos /\ rs' = rs /\ rs_last'.status = "Complete") ]_vars

\* The same for the responses that arrived chunked, where only the code of
\* this repository runs.  It does not hold: the state is back at StatusLine
\* (response.rs:396-400), so a status line that follows is parsed anew.
ChunkedImmutableAfterComplete ==
    [][ (rs_last.status = "Complete" /\ ResponseCalled
         /\ rs_in.payload.kind = "chunked") =>
            /\ rs_pos' = rs_pos
            /\ rs'.status_code = rs.status_code
            /\ rs'.reason_phrase = rs.reason_phrase ]_vars


(***************************************************************************)
(* The caller of ChunkedBody::decode: a chunked body, well formed or with  *)
(* a first chunk-size line of any make, then trailing bytes.  The caller   *)
(* receives the stream piece by piece and calls decode with what is not    *)
(* yet consumed; DecoderAgain is a call made after Complete.               *)
(***************************************************************************)
MaxSizeLineLen == 3
SizeLineBytes == {"0", "1", "a", "g", "+", ";"}

SizeLinesUpTo(n) == UNION { [1..m -> SizeLineBytes] : m \in 0..n }

\* Chunk-size lines: every line of up to MaxSizeLineLen bytes, an upper-case
\* digit, sizes of five and six digits, and longer chunk extensions.
SizeLines ==
    SizeLinesUpTo(MaxSizeLineLen)
    \cup { <<"A">>, <<"f","f","f","f","f">>, <<"1","0","0","0","0","0">>,
           <<"0","0","0","0","1">>, <<"1", ";", CR, "x">>,
           <<"1", ";", "x", "=", "y">> }

AfterSizeLine == <<"a">> \o CRLF \o <<"0">> \o CRLF \o CRLF

\* What may follow the data of a chunk where its CR LF belongs.
ChunkTerminators ==
    { <<>>, <<CR>>, <<LF>>, <<CR, "x">>, <<CR, CR, LF>>, <<"j">>,
      <<"j","u","n","k",CR,LF>>, <<CR, LF>>, <<CR, LF, "0">> \o CRLF \o CRLF }

DecoderScenarios ==
    { DecoderScenario(line \o CRLF \o AfterSizeLine, <<>>) : line \in SizeLines }
    \cup { DecoderScenario(<<"1">> \o CRLF \o <<"X">> \o t, <<>>) :
             t \in ChunkTerminators }
    \cup { DecoderScenario(ChunkedBytes(f.payload.chunks, f.payload.trailer), x) :
             f \in {g \in ResponseFramings : g.payload.kind = "chunked"},
             x \in {CRLF, HeaderLikeBytes} }

DecoderInit ==
    /\ cb_in \in DecoderScenarios
    /\ cb = NewChunkedBody
    /\ cb_pos = 0
    /\ cb_avail = 0
    /\ cb_last = NoCall

DecoderCall(k) ==
    /\ cb_avail + k <= Len(Wire(cb_in))
    /\ \E res \in {ChunkedBody_decode(cb, SubSeq(Wire(cb_in), cb_pos + 1, cb_avail + k))} :
           /\ cb' = res.cb
           /\ cb_pos' = cb_pos + res.consumed
           /\ cb_last' = Outcome(res)
    /\ cb_avail' = cb_avail + k
    /\ UNCHANGED cb_in
    /\ UNCHANGED <<rqVars, rsVars, generated>>

DecoderFeed(k) ==
    /\ cb_last.ok
    /\ cb_last.status # "Complete"
    /\ DecoderCall(k)

DecoderAgain(k) ==
    /\ cb_last.ok
    /\ cb_last.status = "Complete"
    /\ DecoderCall(k)

DecoderNext ==
    \/ \E k \in 1..Len(Wire(cb_in)) : DecoderFeed(k)
    \/ \E k \in 1..Len(cb_in.trailing) : DecoderAgain(k)

InitDecoder == DecoderInit /\ RequestIdle /\ ResponseIdle /\ NothingGenerated

SpecDecoder == InitDecoder /\ [][DecoderNext]_vars

DecoderCalled == cb_avail' > cb_avail

\* C16: a decode call on a decoder whose latest call returned Complete
\* changes nothing in the decoder and does not return Complete.
C16_DecoderTerminal ==
    [][ (cb_last.status = "Complete" /\ DecoderCalled) =>
            (cb' = cb /\ cb_last'.status # "Complete") ]_vars

\* Up to Complete, that is as long as the caller feeds the decoder nothing
\* more once it has returned Complete, Complete is returned once, with the
\* whole chunked body and not a byte more consumed.
DecoderCompletesOnce ==
    [][ (DecoderCalled /\ cb_last'.status = "Complete"
         /\ cb_avail' <= Len(cb_in.message)) =>
            (cb_last.status # "Complete" /\ cb_pos' = Len(cb_in.message)) ]_vars


\* The first chunk-size line of the stream and its size text: the prefix up
\* to the first ';' or CR, or the whole line.
FirstSizeLine == Take(cb_in.message, find_crlf(cb_in.message))

SizeText(line) ==
    IF FindByte(line, {";", CR}) = -1 THEN line
    ELSE Take(line, FindByte(line, {";", CR}))

\* Empty, or with a character that is no hexadecimal digit, or too large.
BadSizeText(text) ==
    \/ text = <<>>
    \/ \E i \in 1..Len(text) : ~IsHexDigit(text[i])
    \/ HexValue(text) > UsizeMax

FirstSizeLineDecoded == cb_avail >= Len(FirstSizeLine) + 2

\* C20: once a call has been given a whole chunk-size line whose size text
\* is empty, holds a character that is not a hexadecimal digit, or denotes a
\* value too large for usize, decode has failed with InvalidChunkSize.
C20_InvalidChunkSize ==
    (FirstSizeLineDecoded /\ BadSizeText(SizeText(FirstSizeLine))) =>
        (~cb_last.ok /\ cb_last.error = "InvalidChunkSize")

\* The same with one '+' before the digits let through, as
\* usize::from_str_radix lets it through; a size text that is good in this
\* sense never fails with InvalidChunkSize.
InvalidChunkSizeButForPlus ==
    FirstSizeLineDecoded =>
        LET text == SizeText(FirstSizeLine)
            digits == IF Len(text) > 0 /\ text[1] = "+" THEN Tail(text) ELSE text
        IN  BadSizeText(digits) <=> (~cb_last.ok /\ cb_last.error = "InvalidChunkSize")


\* generate() of the request, parsed by a fresh Request.
RequestRoundTrip ==
    Request_parse(NewRequest(Some(DefaultRequestLineLimit),
                             Some(DefaultMaxMessageSize)),
                  Request_generate(rq))

\* generate() of the response, parsed by a fresh Response.
ResponseRoundTrip == Response_parse(NewResponse, Response_generate(rs))

RequestRoundTripHolds ==
    /\ RequestRoundTrip.ok
    /\ RequestRoundTrip.status = "Complete"
    /\ RequestRoundTrip.consumed = Len(Request_generate(rq))
    /\ RequestRoundTrip.req.method = rq.method
    /\ RequestRoundTrip.req.target = rq.target
    /\ RequestRoundTrip.req.headers = rq.headers
    /\ RequestRoundTrip.req.body = rq.body

ResponseRoundTripHolds ==
    /\ ResponseRoundTrip.ok
    /\ ResponseRoundTrip.status = "Complete"
    /\ ResponseRoundTrip.consumed = Len(Response_generate(rs))
    /\ ResponseRoundTrip.rsp.status_code = rs.status_code
    /\ ResponseRoundTrip.rsp.reason_phrase = rs.reason_phrase
    /\ ResponseRoundTrip.rsp.headers = rs.headers
    /\ ResponseRoundTrip.rsp.body = rs.body

\* C17: the bytes generate() gives for a request or response that parse has
\* returned Complete for are parsed by a fresh instance to Complete, all of
\* them consumed, with the same start-line fields, headers and body; a
\* response received chunked and rewritten to Content-Length included.
C17_RoundTrip ==
    /\ rq_last.status = "Complete" => RequestRoundTripHolds
    /\ rs_last.status = "Complete" => ResponseRoundTripHolds

\* The same but for the responses whose chunked body ends in a trailer with
\* a Content-Length header of its own.
RoundTripOtherwise ==
    /\ rq_last.status = "Complete" => RequestRoundTripHolds
    /\ (rs_last.status = "Complete" /\ ~DeclaresLength(rs_in.payload.trailer))
       => ResponseRoundTripHolds


(***************************************************************************)
(* Start lines of any make.  A line is a run of up to MaxTokens tokens; it *)
(* is followed by an empty header block and reaches a fresh Request, or a  *)
(* fresh Response, piece by piece as above.                                *)
(***************************************************************************)
MaxTokens == 5

RECURSIVE Flatten(_)
Flatten(ts) == IF Len(ts) = 0 THEN <<>> ELSE ts[1] \o Flatten(Tail(ts))

LinesOf(tokens) ==
    { Flatten(ts) : ts \in UNION { [1..m -> tokens] : m \in 0..MaxTokens } }

\* "G" reads as a method and as a target, "^" is a target no URI may be.
RequestLineTokens == {<<"G">>, <<SP>>, <<"^">>, HTTP11}

RequestLineScenario(line) ==
    [method |-> <<>>, target |-> <<>>, headers |-> <<>>, body |-> <<>>,
     message |-> line \o CRLF \o CRLF, trailing |-> <<>>,
     request_line_limit |-> Some(DefaultRequestLineLimit),
     max_message_size |-> Some(DefaultMaxMessageSize)]

InitRequestLine ==
    /\ rq_in \in { RequestLineScenario(line) : line \in LinesOf(RequestLineTokens) }
    /\ rq = NewRequest(rq_in.request_line_limit, rq_in.max_message_size)
    /\ rq_pos = 0
    /\ rq_avail = 0
    /\ rq_last = NoCall
    /\ ResponseIdle
    /\ DecoderIdle
    /\ NothingGenerated

SpecRequestLine == InitRequestLine /\ [][RequestNext]_vars

\* The request line on the wire, and the places of its first two SPs
\* (0 when there is none).
WireRequestLine == Take(rq_in.message, Len(rq_in.message) - 4)

FirstSP(line) ==
    IF \E i \in 1..Len(line) : line[i] = SP
    THEN CHOOSE i \in 1..Len(line) :
             line[i] = SP /\ \A j \in 1..(i - 1) : line[j] # SP
    ELSE 0

SecondSP(line) ==
    IF FirstSP(line) = 0 THEN 0
    ELSE IF FirstSP(Drop(line, FirstSP(line))) = 0 THEN 0
    ELSE FirstSP(line) + FirstSP(Drop(line, FirstSP(line)))

\* The error C18 names for a line, "" where it names none.
RequestLineErrorAsStated(line) ==
    IF FirstSP(line) = 0 THEN "RequestLineNoMethodDelimiter"
    ELSE IF FirstSP(line) = 1 THEN "RequestLineNoMethodOrExtraWhitespace"
    ELSE IF SecondSP(line) = 0 THEN "RequestLineNoTargetDelimiter"
    ELSE IF SecondSP(line) = FirstSP(line) + 1
    THEN "RequestLineNoTargetOrExtraWhitespace"
    ELSE IF Drop(line, SecondSP(line)) # HTTP11 THEN "RequestLineProtocol"
    ELSE ""

\* The same with the target handed to the URI parser once method and target
\* are delimited, and before the protocol is looked at.
RequestLineError(line) ==
    IF RequestLineErrorAsStated(line) \in {"", "RequestLineProtocol"}
       /\ ~Uri_parse(SubSeq(line, FirstSP(line) + 1, SecondSP(line) - 1)).ok
    THEN "RequestTargetUriInvalid"
    ELSE RequestLineErrorAsStated(line)

\* What a call that was given the whole request line has left, when the
\* line is to fail with error (or to be accepted, error being "").
RequestLineClassified(line, error) ==
    (rq_avail >= Len(line) + 2) =>
        IF error = ""
        THEN /\ rq_last.ok
             /\ rq.method = Take(line, FirstSP(line) - 1)
             /\ rq.target = SubSeq(line, FirstSP(line) + 1, SecondSP(line) - 1)
             /\ rq.state.tag = "Headers"
             /\ rq_pos = IF rq_avail >= Len(line) + 4
                         THEN Len(line) + 4 ELSE Len(line) + 2
        ELSE /\ ~rq_last.ok
             /\ rq_last.error = error
             /\ error # "RequestTargetUriInvalid" => rq_last.data = line
             /\ rq_pos = 0

\* C18 as stated: the five errors, each carrying the whole line, and
\* success for every other line.
C18_AsStated ==
    RequestLineClassified(WireRequestLine, RequestLineErrorAsStated(WireRequestLine))

\* C18, amended: a line with method and target delimited whose target the
\* URI parser rejects fails with RequestTargetUriInvalid, whatever follows
\* the target; the other lines fail with the five errors as stated, each
\* carrying the whole line, or are accepted with method and target
\* captured, the state Headers and len(line) + 2 bytes consumed.
C18_RequestLineClassification ==
    RequestLineClassified(WireRequestLine, RequestLineError(WireRequestLine))

\* A line with a target the URI parser rejects and something else than the
\* protocol after it has failed with RequestTargetUriInvalid.
C18_Witness ==
    /\ RequestLineErrorAsStated(WireRequestLine) = "RequestLineProtocol"
    /\ RequestLineError(WireRequestLine) = "RequestTargetUriInvalid"
    /\ ~rq_last.ok
    /\ rq_last.error = "RequestTargetUriInvalid"


\* Status lines: a protocol, a status text and a reason phrase of several
\* makes, each SP between them present or not.
StatusLineProtocols == {<<>>, HTTP11, <<"H","T","T","P","/","1",".","0">>, <<BadByte>>}
StatusTexts ==
    {<<>>, <<"0">>, <<"2">>, <<"9","9","9">>, <<"1","0","0","0">>,
     <<"1","0","0","0","0","0">>, <<"9","9","9","9","9","9","9">>, <<"+","2">>, <<"-","1">>, <<"2","x">>,
     <<BadByte>>}
ReasonPhrases == {<<>>, <<"K">>, <<"O", SP, "K">>}
OptionalSP == {<<>>, <<SP>>}

StatusLines ==
    { p \o s1 \o c \o s2 \o r :
        p \in StatusLineProtocols, s1 \in OptionalSP, c \in StatusTexts,
        s2 \in OptionalSP, r \in ReasonPhrases }

StatusLineScenario(line) ==
    [status_code |-> 0, reason_phrase |-> <<>>, headers |-> <<>>, payload |-> NoBody,
     message |-> line \o CRLF \o CRLF, trailing |-> <<>>]

InitStatusLine ==
    /\ rs_in \in { StatusLineScenario(line) : line \in StatusLines }
    /\ rs = NewResponse
    /\ rs_pos = 0
    /\ rs_avail = 0
    /\ rs_last = NoCall
    /\ RequestIdle
    /\ DecoderIdle
    /\ NothingGenerated

SpecStatusLine == InitStatusLine /\ [][ResponseNext]_vars

WireStatusLine == Take(rs_in.message, Len(rs_in.message) - 4)

\* The status text of a line with two SPs, and whether it reads as a
\* non-negative integer: digits, with or without a '+' before them.
StatusText(line) == SubSeq(line, FirstSP(line) + 1, SecondSP(line) - 1)

StatusDigits(text) == IF Len(text) > 0 /\ text[1] = "+" THEN Tail(text) ELSE text

IsNonNegativeInteger(text) ==
    /\ Len(StatusDigits(text)) > 0
    /\ \A i \in 1..Len(StatusDigits(text)) : IsDecDigit(StatusDigits(text)[i])

\* The error C19 names for a line, "" where it names none.
StatusLineErrorAsStated(line) ==
    IF FirstSP(line) = 0 THEN "StatusLineNoProtocolDelimiter"
    ELSE IF Take(line, FirstSP(line) - 1) # HTTP11 THEN "StatusLineProtocol"
    ELSE IF SecondSP(line) = 0 THEN "StatusLineNoStatusCodeDelimiter"
    ELSE IF ~IsNonNegativeInteger(StatusText(line)) THEN "InvalidStatusCode"
    ELSE IF DecValue(StatusDigits(StatusText(line))) >= 1000
    THEN "StatusCodeOutOfRange"
    ELSE ""

\* The same with a line that is not valid UTF-8 failing as such, and a
\* status too large for usize failing as no integer.
StatusLineError(line) ==
    IF ~IsUtf8(line) THEN "StatusLineNotValidText"
    ELSE IF StatusLineErrorAsStated(line) = "StatusCodeOutOfRange"
            /\ DecValue(StatusDigits(StatusText(line))) > UsizeMax
    THEN "InvalidStatusCode"
    ELSE StatusLineErrorAsStated(line)

\* What a call that was given the whole status line has left, when the line
\* is to fail with error (or to be accepted, error being "").
StatusLineClassified(line, error) ==
    (rs_avail >= Len(line) + 2) =>
        IF error = ""
        THEN /\ rs_last.ok
             /\ rs.status_code = DecValue(StatusDigits(StatusText(line)))
             /\ rs.status_code \in 0..999
             /\ rs.reason_phrase = Drop(line, SecondSP(line))
        ELSE /\ ~rs_last.ok
             /\ rs_last.error = error

\* C19 as stated: the five errors, and status_code in [0, 999] with the
\* remainder as reason_phrase for every other line.
C19_AsStated ==
    StatusLineClassified(WireStatusLine, StatusLineErrorAsStated(WireStatusLine))

\* C19, amended: a status line that is not valid UTF-8 fails with
\* StatusLineNotValidText, a status too large for usize fails with
\* InvalidStatusCode, and the other lines are classified as stated.
C19_StatusLineClassification ==
    StatusLineClassified(WireStatusLine, StatusLineError(WireStatusLine))

\* A status too large for usize has failed with InvalidStatusCode.
C19_Witness ==
    /\ IsUtf8(WireStatusLine)
    /\ StatusLineErrorAsStated(WireStatusLine) = "StatusCodeOutOfRange"
    /\ ~rs_last.ok
    /\ rs_last.error = "InvalidStatusCode"


\* The first chunk of the stream has a plain size of one byte or more and
\* all its data is on the wire; FirstDataEnd is where that data ends.
FirstDataEnd == Len(FirstSizeLine) + 2 + HexValue(SizeText(FirstSizeLine))

FirstChunkHasData ==
    /\ find_crlf(cb_in.message) # -1
    /\ ~BadSizeText(SizeText(FirstSizeLine))
    /\ HexValue(SizeText(FirstSizeLine)) >= 1
    /\ FirstDataEnd <= Len(Wire(cb_in))

\* The bytes of the current input that follow the data of the first chunk.
AfterFirstData == SubSeq(Wire(cb_in), FirstDataEnd + 1, cb_avail')

\* C21: in a call whose input reaches the last data byte of a chunk, bytes
\* after it that are neither empty, nor a lone CR, nor begin with CR LF
\* make decode fail with InvalidChunkTerminator carrying exactly those
\* bytes; none or a lone CR are waited on; and CR LF is consumed, two
\* bytes, the decoder being at ChunkSize when the input ends there.
C21_ChunkTerminator ==
    [][ (DecoderCalled /\ FirstChunkHasData
         /\ cb_pos <= FirstDataEnd /\ cb_avail' >= FirstDataEnd) =>
           IF AfterFirstData = <<>> \/ AfterFirstData = <<CR>>
           THEN /\ cb_last'.ok
                /\ cb_last'.status = "Incomplete"
                /\ cb_pos' = FirstDataEnd
                /\ cb'.state = "ChunkTerminator"
           ELSE IF Len(AfterFirstData) >= 2 /\ Take(AfterFirstData, 2) = CRLF
           THEN /\ cb_last'.error # "InvalidChunkTerminator"
                /\ cb_avail' = FirstDataEnd + 2 =>
                      /\ cb_last'.ok
                      /\ cb_pos' = FirstDataEnd + 2
                      /\ cb'.state = "ChunkSize"
           ELSE /\ ~cb_last'.ok
                /\ cb_last'.error = "InvalidChunkTerminator"
                /\ cb_last'.data = AfterFirstData ]_vars

\* The chunk's data and junk after it came in one call, which failed with
\* the junk and not the data.
C21_Witness ==
    /\ FirstChunkHasData
    /\ ~cb_last.ok
    /\ cb_last.error = "InvalidChunkTerminator"
    /\ cb_pos = 0
    /\ cb_last.data = <<"j","u","n","k",CR,LF>>


(***************************************************************************)
(* Messages with a damaged header line: in the header block of a request   *)
(* or of a response, or in the trailer of a chunked response.              *)
(***************************************************************************)
DamagedLines ==
    { <<"X">>, <<":", SP, "v">>, <<"X", SP, "y", ":", SP, "v">>, <<BadByte, ":", "v">> }

\* Header blocks with a damaged line, first or after a good one.
DamagedBlocks ==
    { good \o line \o CRLF \o <<"Y", ":", SP, "1">> \o CRLF \o CRLF :
        good \in {<<>>, <<"A", ":", SP, "1">> \o CRLF}, line \in DamagedLines }

DamagedRequests ==
    { [RequestScenario(<<"G","E","T">>, <<"/">>, <<>>, <<>>, <<>>, None, None)
          EXCEPT !.message = RequestLine(<<"G","E","T">>, <<"/">>) \o CRLF \o block] :
        block \in DamagedBlocks }

DamagedResponses ==
    { [ResponseScenario(<<>>, NoBody, <<>>)
          EXCEPT !.message = StatusLine(200, <<"O","K">>) \o CRLF \o block] :
        block \in DamagedBlocks }

DamagedTrailers ==
    { [ResponseScenario(<<TEChunked>>, ChunkedBody(<<>>, <<>>), <<>>)
          EXCEPT !.message = StatusLine(200, <<"O","K">>) \o CRLF
                             \o GenerateHeaderLines(<<TEChunked>>) \o CRLF
                             \o <<"0">> \o CRLF \o block] :
        block \in DamagedBlocks }

InitDamaged ==
    /\ \/ /\ rq_in \in DamagedRequests
          /\ rq = NewRequest(None, None)
          /\ rq_pos = 0
          /\ rq_avail = 0
          /\ rq_last = NoCall
          /\ ResponseIdle
       \/ /\ rs_in \in DamagedResponses \cup DamagedTrailers
          /\ rs = NewResponse
          /\ rs_pos = 0
          /\ rs_avail = 0
          /\ rs_last = NoCall
          /\ RequestIdle
    /\ DecoderIdle
    /\ NothingGenerated

SpecDamaged == InitDamaged /\ [][MessagesNext]_vars

\* C22: a damaged line in the header block of a request or response fails
\* with Headers, a damaged line in the trailer after the zero-sized chunk
\* fails with Trailer, each carrying the collaborator's error, once the
\* block has been given; and neither error is returned for the other stage.
C22_StageDistinctErrors ==
    /\ rq_last.error \in {"Headers", "Trailer"} => rq_last.error = "Headers"
    /\ (rq_in.message # <<>> /\ rq_avail = Len(Wire(rq_in))) =>
          (~rq_last.ok /\ rq_last.error = "Headers" /\ Len(rq_last.data) = 1)
    /\ rs_last.error \in {"Headers", "Trailer"} =>
          (rs_last.error = "Trailer" <=> rs_in.payload.kind = "chunked")
    /\ (rs_in.message # <<>> /\ rs_avail = Len(Wire(rs_in))) =>
          /\ ~rs_last.ok
          /\ rs_last.error = IF rs_in.payload.kind = "chunked"
                             THEN "Trailer" ELSE "Headers"
          /\ Len(rs_last.data) = 1

\* A damaged trailer line after a good one has failed as Trailer.
C22_Witness ==
    /\ rs_in.payload.kind = "chunked"
    /\ ~rs_last.ok
    /\ rs_last.error = "Trailer"
    /\ rs_pos > Len(StatusLine(200, <<"O","K">>)) + 2


(***************************************************************************)
(* Requests that declare no Content-Length, with or without                *)
(* Transfer-Encoding: chunked, followed by bytes that look like a chunked  *)
(* body, parsed by a request as Request::new leaves it.                    *)
(***************************************************************************)
UnframedHeaders ==
    { <<>>, <<Header(HostName, <<"a">>)>>, <<TEChunked>>,
      <<Header(HostName, <<"a">>), TEChunked>> }

UnframedTrailings ==
    { <<>>, <<"G">>, ChunkedBytes(<<Chunk(<<>>, <<"X">>)>>, <<>>) }

InitUnframed ==
    /\ rq_in \in { RequestScenario(<<"G","E","T">>, <<"/">>, h, <<>>, x,
                                   Some(DefaultRequestLineLimit),
                                   Some(DefaultMaxMessageSize)) :
                     h \in UnframedHeaders, x \in UnframedTrailings }
    /\ rq = Request_new
    /\ rq_pos = 0
    /\ rq_avail = 0
    /\ rq_last = NoCall
    /\ ResponseIdle
    /\ DecoderIdle
    /\ NothingGenerated

SpecUnframed == InitUnframed /\ [][RequestNext]_vars

\* C24: a request without Content-Length, declaring Transfer-Encoding:
\* chunked or not, is Complete with an empty body as soon as the blank line
\* ending its header block has been given and not before; what follows the
\* blank line is not consumed, and the request is never in a state other
\* than awaiting its request line or its headers.
C24_NoChunkedRequests ==
    /\ rq_last.ok
    /\ rq.state.tag \in {"RequestLine", "Headers"}
    /\ rq.body = <<>>
    /\ rq_pos <= HeadLength(rq_in)
    /\ rq_last.status = "Complete" <=> rq_avail >= HeadLength(rq_in)
    /\ rq_last.status = "Complete" => rq_pos = HeadLength(rq_in)

\* A request declaring Transfer-Encoding: chunked has completed at its blank
\* line in a call that also held the whole chunked body after it.
C24_Witness ==
    /\ DeclaresChunked(rq_in.headers)
    /\ rq_last.status = "Complete"
    /\ rq_pos = HeadLength(rq_in)
    /\ rq_avail = Len(Wire(rq_in))
    /\ rq_avail > rq_pos + 5
    /\ rq.body = <<>>


(***************************************************************************)
(* Chunked responses whose Transfer-Encoding names other codings before    *)
(* chunked.                                                                *)
(***************************************************************************)
CodingLists ==
    { ChunkedToken,
      Foobar \o <<",", SP>> \o ChunkedToken,
      <<"a", ",", SP, "b", ",", SP>> \o ChunkedToken,
      <<"a", ",", "b", ",">> \o Foobar \o <<",">> \o ChunkedToken }

InitCodings ==
    /\ rs_in \in { ResponseScenario(<<Header(TransferEncodingName, v)>>,
                                    ChunkedBody(<<Chunk(<<>>, <<"h", "i">>)>>, <<>>),
                                    <<>>) : v \in CodingLists }
    /\ rs = NewResponse
    /\ rs_pos = 0
    /\ rs_avail = 0
    /\ rs_last = NoCall
    /\ RequestIdle
    /\ DecoderIdle
    /\ NothingGenerated

SpecCodings == InitCodings /\ [][ResponseNext]_vars

\* The token list of the Transfer-Encoding header the response was sent with.
SentCodings == SplitTokens(rs_in.headers[1].value)

\* What C25 says of a completed response sent with the codings t1..tn, chunked.
CodingsKept ==
    IF Len(SentCodings) = 1
    THEN ~has_header(rs.headers, TransferEncodingName)
    ELSE /\ has_header(rs.headers, TransferEncodingName)
         /\ header_tokens(rs.headers, TransferEncodingName)
               = Take(SentCodings, Len(SentCodings) - 1)

\* C25: when a chunked response whose Transfer-Encoding token list is
\* t1, ..., tn, chunked completes, the token list of its Transfer-Encoding
\* header is exactly t1, ..., tn in order, and the header is gone when
\* chunked was the only token.
C25_TransferEncodingRewrite ==
    rs_last.status = "Complete" => CodingsKept

\* The same holds when at most one coding precedes chunked.
OneCodingKept ==
    (rs_last.status = "Complete" /\ Len(SentCodings) <= 2) => CodingsKept


\* The bytes a call of decode is given.
DecoderPresented == SubSeq(Wire(cb_in), cb_pos + 1, cb_avail')

PresentedSizeLine == Take(DecoderPresented, find_crlf(DecoderPresented))

\* The call is given, first, a whole chunk-size line H;E with H hexadecimal
\* and E text.
PresentedWithExtension ==
    /\ cb.state = "ChunkSize"
    /\ find_crlf(DecoderPresented) # -1
    /\ FindByte(PresentedSizeLine, {";"}) >= 1
    /\ ~BadSizeText(Take(PresentedSizeLine, FindByte(PresentedSizeLine, {";"})))
    /\ \A i \in 1..Len(PresentedSizeLine) : PresentedSizeLine[i] # BadByte

ExtensionLength ==
    Len(PresentedSizeLine) - FindByte(PresentedSizeLine, {";"})

\* The same bytes with the chunk-size line H in place of H;E.
WithoutExtension ==
    Take(PresentedSizeLine, FindByte(PresentedSizeLine, {";"}))
    \o Drop(DecoderPresented, Len(PresentedSizeLine))

\* C26: a call of decode that is given a chunk-size line H;E, H hexadecimal
\* and E text without CR LF, leaves the decoder in the state and with the
\* buffer, and returns the status or error, that the same call gives with
\* the line H in place of H;E; and it consumes as many bytes more as ;E is
\* long.
C26_ChunkExtensionsIgnored ==
    [][ (DecoderCalled /\ PresentedWithExtension) =>
          \E res \in {ChunkedBody_decode(cb, WithoutExtension)} :
             /\ cb' = res.cb
             /\ cb_last'.ok = res.ok
             /\ cb_last'.status = res.status
             /\ cb_last'.error = res.error
             /\ cb_last'.data = res.data
             /\ cb_last'.consumed =
                   IF res.ok THEN res.consumed + ExtensionLength ELSE 0 ]_vars

\* A body whose one chunk carries an extension holding a CR has been decoded
\* in one call.
C26_Witness ==
    /\ cb_in.message = <<"1", ";", CR, "x">> \o CRLF \o AfterSizeLine
    /\ cb_last.status = "Complete"
    /\ cb_last.consumed = Len(cb_in.message)
    /\ cb.buffer = <<"a">>


(***************************************************************************)
(* A caller that, while parsing a request or a response or once it is      *)
(* parsed, calls generate on the value it holds.  generate borrows the     *)
(* value immutably (&self).                                                *)
(***************************************************************************)
InitGenerate ==
    /\ \/ /\ rq_in \in { RequestScenario(<<"G","E","T">>, t, f.headers, f.body, <<>>,
                                          None, None) :
                            t \in RequestTargets, f \in RequestFramings }
          /\ rq = NewRequest(None, None)
          /\ rq_pos = 0
          /\ rq_avail = 0
          /\ rq_last = NoCall
          /\ ResponseIdle
       \/ /\ rs_in \in { ResponseScenario(f.headers, f.payload, <<>>) :
                            f \in ResponseFramings }
          /\ rs = NewResponse
          /\ rs_pos = 0
          /\ rs_avail = 0
          /\ rs_last = NoCall
          /\ RequestIdle
    /\ DecoderIdle
    /\ NothingGenerated

RequestGenerate ==
    /\ rq_in.message # <<>>
    /\ generated = NotGenerated
    /\ generated' = [of |-> "request", bytes |-> Request_generate(rq)]
    /\ UNCHANGED <<rqVars, rsVars, cbVars>>

ResponseGenerate ==
    /\ rs_in.message # <<>>
    /\ generated = NotGenerated
    /\ generated' = [of |-> "response", bytes |-> Response_generate(rs)]
    /\ UNCHANGED <<rqVars, rsVars, cbVars>>

GenerateNext == RequestNext \/ ResponseNext \/ RequestGenerate \/ ResponseGenerate

SpecGenerate == InitGenerate /\ [][GenerateNext]_vars

\* C28: Request::generate returns method SP target SP HTTP/1.1 CRLF, the
\* header generator's output and the body, Response::generate returns
\* HTTP/1.1 SP status_code SP reason_phrase CRLF, the header generator's
\* output and the body; the call leaves the value as it was; and no header
\* is added, removed or changed: a parsed request, and a parsed response
\* that was not chunked, generate the bytes they were parsed from.
C28_GenerateLayoutAndFrame ==
    [][ /\ (generated' # generated /\ generated'.of = "request") =>
              /\ generated'.bytes =
                    rq.method \o <<SP>> \o rq.target \o <<SP>> \o HTTP11 \o CRLF
                    \o GenerateHeaderLines(rq.headers.headers) \o CRLF \o rq.body
              /\ rq' = rq
              /\ rq_last.status = "Complete" => generated'.bytes = rq_in.message
        /\ (generated' # generated /\ generated'.of = "response") =>
              /\ generated'.bytes =
                    HTTP11 \o <<SP>> \o UsizeToString(rs.status_code) \o <<SP>>
                    \o rs.reason_phrase \o CRLF
                    \o GenerateHeaderLines(rs.headers.headers) \o CRLF \o rs.body
              /\ rs' = rs
              /\ (rs_last.status = "Complete" /\ rs_in.payload.kind # "chunked")
                    => generated'.bytes = rs_in.message ]_vars

\* generate has been called on a parsed request that has a body and on none
\* before.
C28_Witness ==
    /\ generated.of = "request"
    /\ rq_last.status = "Complete"
    /\ Len(rq.body) = 3
    /\ generated.bytes = rq_in.message


(***************************************************************************)
(* Requests and responses whose Content-Length is a number, or is not.     *)
(***************************************************************************)
LengthTexts ==
    { <<"3">>, <<"+","3">>, <<"x">>, <<"-","1">>, <<"1","x">>, <<"1",SP,"2">>,
      <<"3",".","0">>, <<"1","0","0","0","0","0">>,
      <<"9","9","9","9","9","9","9">> }

\* Header blocks declaring a length, alone or beside other headers.
LengthHeaders ==
    { <<Header(ContentLengthName, v)>> : v \in LengthTexts }
    \cup { <<Header(HostName, <<"a">>), Header(LowerContentLengthName, <<"x">>)>>,
           <<Header(ContentLengthName, <<"-","1">>), TEChunked>> }

InitLengths ==
    /\ \/ /\ rq_in \in { RequestScenario(<<"G","E","T">>, <<"/">>, h, <<"a","b","c">>,
                                          <<>>, rll, None) :
                            h \in LengthHeaders,
                            rll \in {None, Some(DefaultRequestLineLimit)} }
          /\ rq = NewRequest(rq_in.request_line_limit, rq_in.max_message_size)
          /\ rq_pos = 0
          /\ rq_avail = 0
          /\ rq_last = NoCall
          /\ ResponseIdle
       \/ /\ rs_in \in { ResponseScenario(h, FixedBody(<<"a","b","c">>), <<>>) :
                            h \in LengthHeaders }
          /\ rs = NewResponse
          /\ rs_pos = 0
          /\ rs_avail = 0
          /\ rs_last = NoCall
          /\ RequestIdle
    /\ DecoderIdle
    /\ NothingGenerated

SpecLengths == InitLengths /\ [][MessagesNext]_vars

\* The value of the Content-Length header among headers.
DeclaredLength(headers) ==
    headers[CHOOSE i \in 1..Len(headers) :
                EqIgnoreCase(headers[i].name, ContentLengthName)].value

\* The text is not a non-negative integer that fits usize.
BadLengthText(text) ==
    LET digits == IF Len(text) > 0 /\ text[1] = "+" THEN Tail(text) ELSE text
    IN  \/ digits = <<>>
        \/ \E i \in 1..Len(digits) : ~IsDecDigit(digits[i])
        \/ DecValue(digits) > UsizeMax

\* What C29 says of a message sent with the header block headers, head
\* bytes long up to its blank line, after avail bytes were received.
LengthValidated(headers, head, avail, pos, last, body) ==
    IF BadLengthText(DeclaredLength(headers))
    THEN /\ avail >= head <=> ~last.ok
         /\ ~last.ok => last.error = "InvalidContentLength"
         /\ body = <<>>
         /\ pos < head
    ELSE last.ok \/ last.error # "InvalidContentLength"

\* C29: when the header block of a request or of a response completes with
\* a Content-Length that is not a non-negative integer fitting usize, the
\* call fails with InvalidContentLength, not before, and no byte of the
\* body is consumed; with any other Content-Length no call fails so.
C29_ContentLengthValidation ==
    /\ rq_in.message # <<>> =>
          LengthValidated(rq_in.headers, HeadLength(rq_in), rq_avail, rq_pos,
                          rq_last, rq.body)
    /\ rs_in.message # <<>> =>
          LengthValidated(rs_in.headers, ResponseHeadLength(rs_in), rs_avail, rs_pos,
                          rs_last, rs.body)

\* A response declaring a length too large for usize has failed in the call
\* that was given its blank line together with its body.
C29_Witness ==
    /\ rs_in.message # <<>>
    /\ DeclaredLength(rs_in.headers) = <<"9","9","9","9","9","9","9">>
    /\ rs_avail = Len(Wire(rs_in))
    /\ ~rs_last.ok
    /\ rs_last.error = "InvalidContentLength"
    /\ rs.body = <<>>


(***************************************************************************)
(* coding.rs: decode_body.  The gzip and deflate decoders of flate2 are    *)
(* taken as inverses of their encoders: an encoded body is the plain body  *)
(* behind the mark of its coding, and decoding anything else is an error.  *)
(***************************************************************************)
ContentEncodingName ==
    <<"C","o","n","t","e","n","t","-","E","n","c","o","d","i","n","g">>
GzipToken == <<"g","z","i","p">>
DeflateToken == <<"d","e","f","l","a","t","e">>

GzipMark == "Z"
DeflateMark == "D"

Decoded(body) == [ok |-> TRUE, body |-> body]
NotDecoded == [ok |-> FALSE, body |-> <<>>]

\* fn gzip_decode
gzip_decode(body) ==
    IF Len(body) > 0 /\ body[1] = GzipMark THEN Decoded(Tail(body)) ELSE NotDecoded

\* fn deflate_decode
deflate_decode(body) ==
    IF Len(body) > 0 /\ body[1] = DeflateMark THEN Decoded(Tail(body)) ELSE NotDecoded

\* coding.rs:39-49: the loop over the codings, last first.
RECURSIVE decode_codings(_, _)
decode_codings(codings, body) ==
    IF Len(codings) = 0 THEN [ok |-> TRUE, codings |-> codings, body |-> body]
    ELSE With(codings[Len(codings)], LAMBDA coding :
         With(IF coding = GzipToken THEN gzip_decode(body) ELSE deflate_decode(body),
              LAMBDA decoded :
         IF coding # GzipToken /\ coding # DeflateToken
         THEN [ok |-> TRUE, codings |-> codings, body |-> body]
         ELSE IF ~decoded.ok
         THEN [ok |-> FALSE, codings |-> codings, body |-> body]
         ELSE decode_codings(Take(codings, Len(codings) - 1), decoded.body)))

\* coding.rs:50-62: the headers once the body is decoded.
rewrite_content_encoding(headers, codings, body) ==
    set_header(IF Len(codings) = 0
               THEN remove_header(headers, ContentEncodingName)
               ELSE set_header(headers, ContentEncodingName,
                               JoinTokens(codings, <<",", SP>>)),
               ContentLengthName, UsizeToString(Len(body)))

\* A faulty variant of decode_body: the coding the loop stopped at is not put
\* back.
decode_body_drops_unrecognized(headers, body) ==
    With(decode_codings(header_tokens(headers, ContentEncodingName), body),
         LAMBDA done :
    IF ~done.ok
    THEN [ok |-> FALSE, error |-> "BadContentEncoding", headers |-> headers,
          body |-> <<>>]
    ELSE [ok |-> TRUE, error |-> "",
          headers |-> rewrite_content_encoding(
                          headers, IF Len(done.codings) = 0 THEN <<>>
                          ELSE Take(done.codings, Len(done.codings) - 1),
                          done.body),
          body |-> done.body])

\* pub fn decode_body: Ok(body) with the headers rewritten, or the error with
\* the headers as they were.
decode_body(headers, body) ==
    With(decode_codings(header_tokens(headers, ContentEncodingName), body),
         LAMBDA done :
    IF ~done.ok
    THEN [ok |-> FALSE, error |-> "BadContentEncoding", headers |-> headers,
          body |-> <<>>]
    ELSE [ok |-> TRUE, error |-> "",
          headers |-> rewrite_content_encoding(headers, done.codings, done.body),
          body |-> done.body])

(***************************************************************************)
(* A caller that parses a response and then calls decode_body on its       *)
(* headers and body, keeping the body returned.                            *)
(***************************************************************************)
PlainBody == <<"h", "i">>

\* The body after the sender applied the codings, first to last; a coding
\* other than gzip and deflate is one this model does not look into.
RECURSIVE EncodeAll(_, _)
EncodeAll(codings, body) ==
    IF Len(codings) = 0 THEN body
    ELSE EncodeAll(Tail(codings),
                   IF codings[1] = GzipToken THEN <<GzipMark>> \o body
                   ELSE IF codings[1] = DeflateToken THEN <<DeflateMark>> \o body
                   ELSE body)

CodedResponse(encodings, body) ==
    ResponseScenario(
        [i \in 1..Len(encodings) |-> Header(ContentEncodingName, encodings[i])]
        \o <<Header(ContentLengthName, UsizeToString(Len(body)))>>,
        FixedBody(body), <<>>)

EncodingValues ==
    { GzipToken, DeflateToken, Foobar, <<"G","Z","I","P">>,
      DeflateToken \o <<",", SP>> \o GzipToken,
      GzipToken \o <<",">> \o GzipToken,
      Foobar \o <<",", SP>> \o GzipToken,
      GzipToken \o <<",", SP>> \o Foobar,
      GzipToken \o <<",", SP>> \o Foobar \o <<",", SP>> \o DeflateToken,
      <<"a", ",", SP>> \o Foobar \o <<",", SP>> \o GzipToken
          \o <<",", SP>> \o DeflateToken }

\* Responses whose body is coded as Content-Encoding says, in one header or
\* two, a response without Content-Encoding, and two whose body is not coded
\* as declared.
CodedResponses ==
    { CodedResponse(<<v>>, EncodeAll(SplitTokens(v), PlainBody)) :
        v \in EncodingValues }
    \cup { CodedResponse(<<DeflateToken, GzipToken>>,
                         EncodeAll(<<DeflateToken, GzipToken>>, PlainBody)),
           CodedResponse(<<>>, PlainBody),
           CodedResponse(<<GzipToken>>, PlainBody),
           CodedResponse(<<DeflateToken \o <<",", SP>> \o GzipToken>>,
                         EncodeAll(<<GzipToken>>, PlainBody)) }

InitCoding ==
    /\ rs_in \in CodedResponses
    /\ rs = NewResponse
    /\ rs_pos = 0
    /\ rs_avail = 0
    /\ rs_last = NoCall
    /\ RequestIdle
    /\ DecoderIdle
    /\ NothingGenerated

\* decode_body(&mut response.headers, &response.body) on a parsed response.
ResponseDecodeBody ==
    /\ rs_last.ok
    /\ rs_last.status = "Complete"
    /\ \E res \in {decode_body(rs.headers, rs.body)} :
           /\ rs' = [rs EXCEPT !.headers = res.headers,
                               !.body = IF res.ok THEN res.body ELSE @]
           /\ rs_last' = [ok |-> res.ok, status |-> IF res.ok THEN "Decoded" ELSE "",
                          consumed |-> 0, error |-> res.error, data |-> <<>>]
    /\ UNCHANGED <<rs_in, rs_pos, rs_avail>>
    /\ UNCHANGED <<rqVars, cbVars, generated>>

CodingNext == ResponseNext \/ ResponseDecodeBody

SpecCoding == InitCoding /\ [][CodingNext]_vars

\* The Content-Encoding token list the response was sent with.
SentEncodings == header_tokens([headers |-> rs_in.headers], ContentEncodingName)

\* The tokens up to and including the last that is neither gzip nor deflate.
RECURSIVE UndecodedPrefix(_)
UndecodedPrefix(tokens) ==
    IF Len(tokens) = 0 THEN <<>>
    ELSE IF tokens[Len(tokens)] \in {GzipToken, DeflateToken}
    THEN UndecodedPrefix(Take(tokens, Len(tokens) - 1))
    ELSE tokens

WellCoded == rs_in.payload.body = EncodeAll(SentEncodings, PlainBody)

\* C30: decode_body undoes the gzip and deflate codings at the end of the
\* Content-Encoding token list, last first, and stops at the first other
\* token; on success the token list of Content-Encoding is the undecoded
\* prefix in its order, the header being removed when the prefix is empty,
\* and Content-Length is the length of the body returned; a body coded as
\* declared is decoded without error.
C30_DecodeBody ==
    /\ rs_last.status = "Decoded" =>
          /\ IF UndecodedPrefix(SentEncodings) = <<>>
             THEN ~has_header(rs.headers, ContentEncodingName)
             ELSE /\ has_header(rs.headers, ContentEncodingName)
                  /\ header_tokens(rs.headers, ContentEncodingName)
                        = UndecodedPrefix(SentEncodings)
          /\ header_value(rs.headers, ContentLengthName)
                = [some |-> TRUE, val |-> UsizeToString(Len(rs.body))]
          /\ WellCoded => rs.body = EncodeAll(UndecodedPrefix(SentEncodings), PlainBody)
    /\ WellCoded => rs_last.error # "BadContentEncoding"

\* A body coded gzip, foobar, deflate has been decoded down to foobar.
C30_Witness ==
    /\ rs_last.status = "Decoded"
    /\ SentEncodings = <<GzipToken, Foobar, DeflateToken>>
    /\ header_tokens(rs.headers, ContentEncodingName) = <<GzipToken, Foobar>>
    /\ rs.body = <<GzipMark>> \o PlainBody
    /\ header_value(rs.headers, ContentLengthName).val = <<"3">>

(***************************************************************************)
(* The three callers side by side: of Request::parse, of Response::parse   *)
(* and of ChunkedBody::decode.                                             *)
(***************************************************************************)
InitElements ==
    /\ \/ /\ RequestInit
          /\ ~rq_in.max_message_size.some
          /\ ResponseIdle
          /\ DecoderIdle
       \/ ResponseInit /\ RequestIdle /\ DecoderIdle
       \/ DecoderInit /\ RequestIdle /\ ResponseIdle
    /\ NothingGenerated

ElementsNext == RequestNext \/ ResponseNext \/ DecoderNext

SpecElements == InitElements /\ [][ElementsNext]_vars

ResponsePresented == SubSeq(Wire(rs_in), rs_pos + 1, rs_avail')

\* The bytes the caller of decode holds that no call has consumed.
DecoderUnconsumed == SubSeq(Wire(cb_in), cb_pos + 1, cb_avail)

\* What C31 says of the decoder: a call that finds it awaiting a chunk size
\* and is given no CRLF, or awaiting a chunk terminator and is given a lone
\* CR, returns Incomplete with nothing consumed and leaves the decoder as it
\* was; and a call that leaves it waiting in one of these states has
\* consumed nothing of the unfinished element.
DecoderWaits ==
    /\ (DecoderCalled /\ cb.state = "ChunkSize" /\ find_crlf(DecoderPresented) = -1)
          => /\ cb_last'.ok
             /\ cb_last'.status = "Incomplete"
             /\ cb_last'.consumed = 0
             /\ cb' = cb
    /\ (DecoderCalled /\ cb.state = "ChunkTerminator" /\ DecoderPresented = <<CR>>)
          => /\ cb_last'.ok
             /\ cb_last'.status = "Incomplete"
             /\ cb_last'.consumed = 0
             /\ cb' = cb
    /\ (DecoderCalled /\ cb_last'.ok /\ cb_last'.status = "Incomplete")
          => /\ cb'.state = "ChunkSize" => find_crlf(DecoderUnconsumed') = -1
             /\ cb'.state = "ChunkTerminator" => DecoderUnconsumed' \in {<<>>, <<CR>>}

ResponseWaits ==
    (ResponseCalled /\ rs.state.tag = "StatusLine" /\ find_crlf(ResponsePresented) = -1)
       => /\ rs_last'.ok
          /\ rs_last'.status = "Incomplete"
          /\ rs_last'.consumed = 0
          /\ rs' = rs

RequestWaits ==
    /\ rq_last'.ok
    /\ rq_last'.status = "Incomplete"
    /\ rq_last'.consumed = 0
    /\ rq' = rq

\* C31 as stated: also a request awaiting its request line, given input
\* without CRLF, returns Incomplete with nothing consumed and is unchanged.
C31_AsStated ==
    [][ /\ DecoderWaits
        /\ ResponseWaits
        /\ (RequestCalled /\ rq.state.tag = "RequestLine"
            /\ find_crlf(RequestPresented) = -1) => RequestWaits ]_vars

\* C31: nothing is consumed from an incomplete line.  A decoder awaiting a
\* chunk size, a response awaiting its status line, and a request awaiting
\* its request line and given no more bytes than request_line_limit, return
\* Incomplete with nothing consumed and are unchanged when the input holds
\* no CRLF; so does a decoder awaiting a chunk terminator when the input is
\* empty or a lone CR.
C31_NothingConsumedFromIncompleteLine ==
    [][ /\ DecoderWaits
        /\ ResponseWaits
        /\ (RequestCalled /\ rq.state.tag = "RequestLine"
            /\ find_crlf(RequestPresented) = -1
            /\ (rq.request_line_limit.some =>
                   Len(RequestPresented) <= rq.request_line_limit.val))
              => RequestWaits ]_vars

\* A decoder that had consumed the data of a chunk was called with the CR
\* of its terminator alone, and waits.
C31_Witness ==
    /\ cb.state = "ChunkTerminator"
    /\ cb_last.ok
    /\ cb_last.status = "Incomplete"
    /\ cb_last.consumed = 0
    /\ DecoderUnconsumed = <<CR>>
    /\ Len(cb.buffer) > 0

(***************************************************************************)
(* The loops of Request::parse, Response::parse and ChunkedBody::decode,   *)
(* iteration by iteration: the state each iteration found, what its step   *)
(* returned and how many bytes it consumed.                                *)
(***************************************************************************)
Iteration(state, step) ==
    [state |-> state,
     status |-> IF step.ok THEN step.status ELSE "Error",
     consumed |-> step.consumed]

\* request.rs:341-355: the step one iteration takes.
RequestStep(r, raw_message_remainder) ==
    CASE r.state.tag = "Body" ->
           parse_message_for_body(r, raw_message_remainder, r.state.content_length)
      [] r.state.tag = "Headers" ->
           Request_parse_message_for_headers(r, raw_message_remainder)
      [] r.state.tag = "RequestLine" ->
           parse_message_for_request_line(r, raw_message_remainder)

RECURSIVE RequestLoop(_, _, _)
RequestLoop(r, raw_message, total_consumed) ==
    With(RequestStep(r, Drop(raw_message, total_consumed)), LAMBDA step :
    IF step.ok /\ step.status = "CompletePart"
    THEN <<Iteration(r.state.tag, step)>>
         \o RequestLoop(step.req, raw_message, total_consumed + step.consumed)
    ELSE <<Iteration(r.state.tag, step)>>)

\* response.rs:324-346: the step one iteration takes.
ResponseStep(r, raw_message_remainder) ==
    With([r EXCEPT !.state = DefaultResponseState], LAMBDA taken :
    CASE r.state.tag = "ChunkedBody" ->
           parse_message_for_chunked_body(taken, raw_message_remainder,
                                          r.state.chunked_body)
      [] r.state.tag = "FixedBody" ->
           parse_message_for_fixed_body(taken, raw_message_remainder,
                                        r.state.content_length)
      [] r.state.tag = "Headers" ->
           Response_parse_message_for_headers(taken, raw_message_remainder)
      [] r.state.tag = "StatusLine" ->
           parse_message_for_status_line(taken, raw_message_remainder))

RECURSIVE ResponseLoop(_, _, _)
ResponseLoop(r, raw_message, total_consumed) ==
    With(ResponseStep(r, Drop(raw_message, total_consumed)), LAMBDA step :
    IF step.ok /\ step.status = "CompletePart"
    THEN <<Iteration(r.state.tag, step)>>
         \o ResponseLoop(step.rsp, raw_message, total_consumed + step.consumed)
    ELSE <<Iteration(r.state.tag, step)>>)

\* chunked_body.rs:57-70: the step one iteration takes.
DecoderStep(decoder, input_remainder) ==
    CASE decoder.state = "ChunkData" -> decode_data(decoder, input_remainder)
      [] decoder.state = "ChunkSize" -> decode_size(decoder, input_remainder)
      [] decoder.state = "ChunkTerminator" -> decode_terminator(decoder, input_remainder)
      [] decoder.state = "Trailer" -> decode_trailer(decoder, input_remainder)

RECURSIVE DecoderLoop(_, _, _)
DecoderLoop(decoder, input, total_consumed) ==
    With(DecoderStep(decoder, Drop(input, total_consumed)), LAMBDA step :
    IF step.ok /\ step.status = "CompletePart"
    THEN <<Iteration(decoder.state, step)>>
         \o DecoderLoop(step.cb, input, total_consumed + step.consumed)
    ELSE <<Iteration(decoder.state, step)>>)

\* The least an iteration ending in CompletePart consumes, by the state it
\* found.
LeastProgress(state) ==
    CASE state \in {"RequestLine", "StatusLine", "Headers", "ChunkSize",
                    "ChunkTerminator"} -> 2
      [] state = "ChunkData" -> 1
      [] OTHER -> 1

RECURSIVE SumConsumed(_)
SumConsumed(loop) ==
    IF Len(loop) = 0 THEN 0 ELSE loop[1].consumed + SumConsumed(Tail(loop))

\* The loop ran on n bytes and ended as the call did.
LoopBounded(loop, n, last) ==
    /\ Len(loop) <= n + 1
    /\ \A i \in 1..Len(loop) :
          loop[i].status = "CompletePart" =>
             /\ loop[i].consumed >= LeastProgress(loop[i].state)
             /\ loop[i].state = "ChunkTerminator" => loop[i].consumed = 2
    /\ SumConsumed(loop) <= n
    /\ last.ok => last.consumed = SumConsumed(loop)
    /\ last.ok <=> loop[Len(loop)].status # "Error"

\* C33: in every call of Request::parse, Response::parse and
\* ChunkedBody::decode, each iteration of the loop that ends in CompletePart
\* consumes at least one byte (two for a request line, a status line, a
\* header block, a chunk-size line and a chunk terminator), so the loop
\* makes at most len(input) + 1 iterations.
C33_LoopsTerminate ==
    [][ /\ RequestCalled =>
              LoopBounded(RequestLoop(rq, RequestPresented, 0),
                          Len(RequestPresented), rq_last')
        /\ ResponseCalled =>
              LoopBounded(ResponseLoop(rs, ResponsePresented, 0),
                          Len(ResponsePresented), rs_last')
        /\ DecoderCalled =>
              LoopBounded(DecoderLoop(cb, DecoderPresented, 0),
                          Len(DecoderPresented), cb_last') ]_vars

\* A chunked body of two chunks and a trailer has been decoded in one call,
\* whose loop made eight iterations.
C33_Witness ==
    /\ cb_last.status = "Complete"
    /\ cb_last.consumed = Len(cb_in.message)
    /\ cb_pos = cb_last.consumed
    /\ Len(DecoderLoop(NewChunkedBody, cb_in.message, 0)) = 8

\* The header block declares Content-Length: 0.
DeclaresNoBody(headers) ==
    DeclaresLength(headers) /\ DeclaredLength(headers) = <<"0">>

\* What C34 says of a message whose head is head bytes long, after a
\* successful call that left avail bytes received and pos bytes consumed.
CompleteAtBlankLine(head, avail, pos, last, body) ==
    (last.ok /\ last.status # "None") =>
        /\ last.status = "Complete" <=> avail >= head
        /\ last.status = "Complete" => (body = <<>> /\ pos = head)

\* C34: a request or response with Content-Length: 0 is Complete, with an
\* empty body, in the call that is given the blank line ending its header
\* block, whether or not anything follows; what has been consumed by then is
\* the request or status line and the header block.
C34_ZeroLengthCompletesAtBlankLine ==
    /\ DeclaresNoBody(rq_in.headers) =>
          CompleteAtBlankLine(HeadLength(rq_in), rq_avail, rq_pos, rq_last, rq.body)
    /\ (rs_in.message # <<>> /\ DeclaresNoBody(rs_in.headers)) =>
          CompleteAtBlankLine(ResponseHeadLength(rs_in), rs_avail, rs_pos, rs_last,
                              rs.body)

\* A request with Content-Length: 0 and nothing after it has completed in
\* the call that brought its blank line, the head having come in pieces.
C34_Witness ==
    /\ DeclaresNoBody(rq_in.headers)
    /\ rq_in.trailing = <<>>
    /\ rq_last.status = "Complete"
    /\ rq_avail = HeadLength(rq_in)
    /\ rq_last.consumed < HeadLength(rq_in)
    /\ rq.body = <<>>

\* ---------------------------------------------------------------------
\* Declared lengths near the top of the machine word.

\* Content-Length texts: the greatest usize, one a little below it, and two
\* small ones.
WordLengthTexts ==
    { UsizeToString(UsizeMax), UsizeToString(UsizeMax - 20), <<"5","0">>, <<"3">> }

\* The caps the requests are parsed under.
WordCaps == { None, Some(DefaultRequestLineLimit), Some(60) }

InitOverflow ==
    /\ rq_in \in { RequestScenario(<<"G","E","T">>, <<"/">>,
                                   <<Header(ContentLengthName, v)>>,
                                   <<"a","b","c">>, <<>>, None, mms) :
                      v \in WordLengthTexts, mms \in WordCaps }
    /\ rq = NewRequest(rq_in.request_line_limit, rq_in.max_message_size)
    /\ rq_pos = 0
    /\ rq_avail = 0
    /\ rq_last = NoCall
    /\ ResponseIdle
    /\ DecoderIdle
    /\ NothingGenerated

SpecOverflow == InitOverflow /\ [][RequestNext]_vars

\* The Content-Length a request scenario declares, as a number.
DeclaredContentLength(in) == ParseUsize(DeclaredLength(in.headers)).val

\* The whole head of the request has been presented and parsed.
HeadParsed == rq_avail >= HeadLength(rq_in) /\ rq_last # NoCall

\* C35: the addition of a declared Content-Length to total_bytes does not
\* overflow the word: whenever the head of a request has been parsed and the
\* head's length plus the declared length exceeds max_message_size, the
\* request has been rejected with MessageTooLong.
C35_NoWrapAround ==
    (HeadParsed
        /\ rq_in.max_message_size.some
        /\ HeadLength(rq_in) + DeclaredContentLength(rq_in) > rq_in.max_message_size.val) =>
        (~rq_last.ok /\ rq_last.error = "MessageTooLong")

\* The same for the sums that fit the word, where the accounting is exact.
C35_SumsThatFit ==
    (HeadParsed
        /\ rq_in.max_message_size.some
        /\ HeadLength(rq_in) + DeclaredContentLength(rq_in) <= UsizeMax
        /\ HeadLength(rq_in) + DeclaredContentLength(rq_in) > rq_in.max_message_size.val) =>
        (~rq_last.ok /\ rq_last.error = "MessageTooLong")

\* A request declaring the greatest usize under a cap of 1000 bytes ends in a
\* panic of either build.
C35_Panics ==
    /\ DeclaredContentLength(rq_in) = UsizeMax
    /\ rq_in.max_message_size = Some(DefaultRequestLineLimit)
    /\ HeadParsed
    /\ rq_last.error = "Panic"

\* ---------------------------------------------------------------------
\* The order of the request parser's states.

\* The place of a state in RequestLine -> Headers -> Body(n).
StateRank(state) ==
    CASE state.tag = "RequestLine" -> 0
      [] state.tag = "Headers" -> 1
      [] state.tag = "Body" -> 2

\* The state after is the state before or a later one, and a Body state
\* keeps its content_length.
MovesForward(before, after) ==
    /\ StateRank(after) >= StateRank(before)
    /\ before.tag = "Body" => after = before

\* Inputs a call may be given besides the bytes of the scenario: nothing, a
\* line that is neither a request line nor a header, a header block with an
\* unusable Content-Length, and one with another Content-Length.
ProbeInputs ==
    { <<>>,
      <<"x", CR, LF>>,
      ContentLengthName \o <<":", SP, "x", CR, LF, CR, LF>>,
      ContentLengthName \o <<":", SP, "7", CR, LF, CR, LF, "a">> }

\* C36: the state of the request parser only moves forward: every call of
\* Request::parse, the first ones and those made after Complete, whether it
\* succeeds or fails, leaves the state where it was or at a later state of
\* RequestLine -> Headers -> Body(n), and never changes the n of Body(n);
\* so would a call with any of the probe inputs in place of the scenario's
\* bytes.
C36_StateMovesForward ==
    [][ /\ MovesForward(rq.state, rq'.state)
        /\ \A x \in ProbeInputs :
              MovesForward(rq.state, Request_parse(rq, x).req.state) ]_vars

\* A request in Body(3) has been called again after Complete and is still
\* in Body(3).
C36_Witness ==
    /\ rq.state = RequestState("Body", 3)
    /\ rq_last.ok /\ rq_last.status = "Complete"
    /\ rq_avail > Len(rq_in.message)
    /\ rq_pos = Len(rq_in.message)

\* ---------------------------------------------------------------------
\* Responses that fail in each state of the response parser.

\* A response whose bytes after the head are given as they are.
ResponseWithTail(headers, tail) ==
    [ResponseScenario(headers, NoBody, <<>>)
        EXCEPT !.message = StatusLine(200, <<"O","K">>) \o CRLF
                           \o GenerateHeaderLines(headers) \o CRLF \o tail]

\* One good chunk, then what the decoder refuses: a size line that is not a
\* size, a size line that is not text, junk in place of the chunk's
\* terminator (of the first and of a second chunk), and a damaged trailer
\* line.
FailingChunkTails ==
    { <<"3">> \o CRLF \o <<"a","b","c">> \o CRLF \o <<"z","z">> \o CRLF,
      <<"3">> \o CRLF \o <<"a","b","c">> \o CRLF \o <<BadByte>> \o CRLF,
      <<"3">> \o CRLF \o <<"a","b","c","X","Y">>,
      <<"3">> \o CRLF \o <<"a","b","c">> \o CRLF \o <<"1">> \o CRLF \o <<"d","X","Y">>,
      <<"3">> \o CRLF \o <<"a","b","c">> \o CRLF \o <<"0">> \o CRLF
          \o <<"X">> \o CRLF \o CRLF }

FailingResponses ==
    { StatusLineScenario(<<"H","T","T","P","/","1",".","1",SP,"a","b","c",SP,"O","K">>),
      ResponseWithTail(<<Header(ContentLengthName, <<"x">>)>>, <<"a","b","c">>),
      ResponseScenario(<<Header(ContentLengthName, <<"3">>)>>, FixedBody(<<"a","b","c">>),
                       <<"z">>) }
    \cup { ResponseWithTail(<<TEChunked>>, tail) : tail \in FailingChunkTails }

InitFailing ==
    /\ rs_in \in FailingResponses \cup DamagedResponses
    /\ rs = NewResponse
    /\ rs_pos = 0
    /\ rs_avail = 0
    /\ rs_last = NoCall
    /\ RequestIdle
    /\ DecoderIdle
    /\ NothingGenerated

SpecFailing == InitFailing /\ [][ResponseNext]_vars

\* C37: when Response::parse returns an error, whatever state the call
\* began in, the response is left in the default state StatusLine: the
\* state taken at the start of the iteration is not put back.  A chunked
\* decoder that was in progress is gone with the payload it had buffered,
\* and the body of the response has received none of it.
C37_ErrorLeavesStatusLine ==
    [][ (ResponseCalled /\ ~rs_last'.ok) =>
            /\ rs'.state = DefaultResponseState
            /\ rs'.state.tag = "StatusLine"
            /\ rs'.body = rs.body
            /\ rs.state.tag = "ChunkedBody" => rs'.body = <<>> ]_vars

\* The state the parser is in after an error, for each stage an error can
\* come from, is StatusLine.
C37_FailedIsStatusLine ==
    (~rs_last.ok) => (rs.state.tag = "StatusLine" /\ rs.body = <<>>)

\* A chunked response had its first chunk consumed by an earlier call, and a
\* later call failed on the second size line: the response is in StatusLine
\* with an empty body.
C37_Witness ==
    /\ ~rs_last.ok
    /\ rs_last.error = "InvalidChunkSize"
    /\ rs_pos >= ResponseHeadLength(rs_in) + 8
    /\ rs.state.tag = "StatusLine"
    /\ rs.body = <<>>

\* ---------------------------------------------------------------------
\* Chunked bodies with a size line the decoder refuses after good chunks.

\* The chunks before the refused line.
EarlierChunks == { <<>>, <<<<"a","b","c">>>>, <<<<"a","b","c">>, <<"d">>>> }

\* Size lines that are refused: no digit, a byte that is not text, an empty
\* line, a sign, and a size beyond usize.
RefusedSizeLines ==
    { <<"z","z">>, <<BadByte>>, <<>>, <<"-","1">>, <<"F","F","F","F","F","F">> }

\* The bytes of chunks of one digit of size, each with its terminator.
RECURSIVE ChunksOnWire(_)
ChunksOnWire(chunks) ==
    IF chunks = <<>> THEN <<>>
    ELSE UsizeToString(Len(Head(chunks))) \o CRLF \o Head(chunks) \o CRLF
         \o ChunksOnWire(Tail(chunks))

\* The payload of the chunks, in order.
RECURSIVE PayloadOf(_)
PayloadOf(chunks) ==
    IF chunks = <<>> THEN <<>> ELSE Head(chunks) \o PayloadOf(Tail(chunks))

RefusedScenario(chunks, line) ==
    DecoderScenario(ChunksOnWire(chunks) \o line \o CRLF \o <<"x">>, <<>>)

InitRefused ==
    /\ cb_in \in { RefusedScenario(chunks, line) :
                      chunks \in EarlierChunks, line \in RefusedSizeLines }
                 \cup { DecoderScenario(ChunksOnWire(<<<<"a","b","c">>>>)
                                        \o <<"0">> \o CRLF \o CRLF, CRLF) }
    /\ cb = NewChunkedBody
    /\ cb_pos = 0
    /\ cb_avail = 0
    /\ cb_last = NoCall
    /\ RequestIdle
    /\ ResponseIdle
    /\ NothingGenerated

SpecRefused == InitRefused /\ [][DecoderNext]_vars

\* The decoder as the last iteration of a call of decode finds it.
RECURSIVE DecoderBeforeLastStep(_, _, _)
DecoderBeforeLastStep(decoder, input, total_consumed) ==
    With(DecoderStep(decoder, Drop(input, total_consumed)), LAMBDA step :
    IF step.ok /\ step.status = "CompletePart"
    THEN DecoderBeforeLastStep(step.cb, input, total_consumed + step.consumed)
    ELSE decoder)

SizeLineErrors == {"ChunkSizeLineNotValidText", "InvalidChunkSize"}

\* C38: when a call of ChunkedBody::decode fails on a chunk-size line, the
\* decoder is left exactly as the failing iteration found it: in ChunkSize,
\* with chunk_bytes_needed 0 and with the payload of every earlier chunk,
\* those of earlier calls and those of the same call, in its buffer.
C38_SizeErrorKeepsDecoder ==
    [][ (DecoderCalled /\ ~cb_last'.ok /\ cb_last'.error \in SizeLineErrors) =>
            /\ cb' = DecoderBeforeLastStep(cb, SubSeq(Wire(cb_in), cb_pos + 1, cb_avail'), 0)
            /\ cb'.state = "ChunkSize"
            /\ cb'.chunk_bytes_needed = 0
            /\ \A chunks \in EarlierChunks, line \in RefusedSizeLines :
                  cb_in = RefusedScenario(chunks, line) =>
                      cb'.buffer = PayloadOf(chunks) ]_vars

\* Every refused line of the scenarios is refused once it has been given
\* whole.
C38_RefusedOnceGiven ==
    (cb_in.trailing = <<>> /\ cb_avail >= Len(cb_in.message) - 1) =>
        (~cb_last.ok /\ cb_last.error \in SizeLineErrors)

\* Two chunks were decoded by earlier calls and a later call failed on the
\* third size line: the four bytes of payload are still in the buffer.
C38_Witness ==
    /\ ~cb_last.ok
    /\ cb_last.error = "InvalidChunkSize"
    /\ cb_pos = Len(ChunksOnWire(<<<<"a","b","c">>, <<"d">>>>))
    /\ cb.state = "ChunkSize"
    /\ cb.buffer = <<"a","b","c","d">>

\* ---------------------------------------------------------------------
\* The decoder's counters at every step.

\* The decoders a call of decode goes through, one after each iteration of
\* its loop, each with the bytes of the input consumed up to there.
RECURSIVE DecoderTrace(_, _, _)
DecoderTrace(decoder, input, total_consumed) ==
    With(DecoderStep(decoder, Drop(input, total_consumed)), LAMBDA step :
    IF step.ok /\ step.status = "CompletePart"
    THEN <<[cb |-> step.cb, consumed |-> total_consumed + step.consumed]>>
         \o DecoderTrace(step.cb, input, total_consumed + step.consumed)
    ELSE <<[cb |-> step.cb, consumed |-> total_consumed + step.consumed]>>)

\* The sum of the sizes announced by the size lines among the consumed
\* bytes of a chunked body.
RECURSIVE AnnouncedTotal(_)
AnnouncedTotal(consumed_bytes) ==
    With(find_crlf(consumed_bytes), LAMBDA line_end :
    IF line_end = -1 THEN 0
    ELSE With(parse_chunk_size(Take(consumed_bytes, line_end)), LAMBDA size :
         IF ~size.some \/ size.val = 0 THEN 0
         ELSE IF Len(consumed_bytes) >= line_end + 2 + size.val + 2
         THEN size.val + AnnouncedTotal(Drop(consumed_bytes, line_end + 2 + size.val + 2))
         ELSE size.val))

\* chunk_bytes_needed is positive in ChunkData and nowhere else, and the
\* buffer holds the announced bytes less those still needed.
CountersAgree(decoder, consumed_bytes) ==
    /\ decoder.chunk_bytes_needed > 0 <=> decoder.state = "ChunkData"
    /\ decoder.state \in {"ChunkSize", "ChunkTerminator", "Trailer"} =>
          decoder.chunk_bytes_needed = 0
    /\ Len(decoder.buffer) = AnnouncedTotal(consumed_bytes) - decoder.chunk_bytes_needed

\* C39: the decoder's counters agree before every call of decode, after
\* every iteration of its loop and so when it returns, with a result or an
\* error: chunk_bytes_needed > 0 exactly in ChunkData, 0 in ChunkSize,
\* ChunkTerminator and Trailer, and the buffer's length is the sum of the
\* sizes announced so far less chunk_bytes_needed.
C39_DecoderCounters ==
    [][ DecoderCalled =>
          /\ CountersAgree(cb, Take(Wire(cb_in), cb_pos))
          /\ With(DecoderTrace(cb, SubSeq(Wire(cb_in), cb_pos + 1, cb_avail'), 0),
                  LAMBDA trace :
                 /\ trace[Len(trace)].cb = cb'
                 /\ \A i \in 1..Len(trace) :
                       CountersAgree(trace[i].cb,
                                     Take(Wire(cb_in), cb_pos + trace[i].consumed))) ]_vars

\* A call has returned in the middle of the data of a chunk: the decoder is
\* in ChunkData with bytes still needed and the bytes received in its
\* buffer, the two adding up to the size announced.
C39_Witness ==
    /\ cb.state = "ChunkData"
    /\ cb.chunk_bytes_needed > 0
    /\ Len(cb.buffer) > 0
    /\ AnnouncedTotal(Take(Wire(cb_in), cb_pos)) = Len(cb.buffer) + cb.chunk_bytes_needed
    /\ cb_last.ok /\ cb_last.status = "Incomplete"

=============================================================================
